---- MODULE Spec2Model ----
(***************************************************************************)
(* Model of the BestBuddies booking client: the Remote Booking Gateway of  *)
(* js/firebase-db.js (bookings cache, getBookings, createBooking,          *)
(* updateBooking, saveBookings, the bookings listener) and the booking     *)
(* submission flow (duplicate detection and the not-committed              *)
(* reconciliation of createBookingSecure).                                 *)
(*                                                                         *)
(* JavaScript runs one callback at a time: an action of this module is the *)
(* code that runs between two awaits.  A remote request is issued by the   *)
(* action that reaches the await, processed by the backing store in a      *)
(* step of its own (RemoteServe...), and its continuation is a third step. *)
(* A list of bookings is modelled as the set of its records (ids are the   *)
(* keys of the collection, so a list never holds two records of one id).   *)
(***************************************************************************)
EXTENDS Integers, FiniteSets, Sequences, TLC

\* ------------------------------------------------------------------ bounds
MaxCalls == 1      \* getBookings calls that may be in flight together
MaxTicks == 2      \* clock steps of a session
MaxVer == 2        \* writes the backing store applies in a session
MaxGraceTicks == 2 \* clock steps while submissions run
Capacity == 12                         \* what the key-value store holds
MaxTimers == 2                         \* setTimeout calls of a page
MaxStorageTicks == 2                   \* clock steps of the storage manager
MaxDays == 2                           \* days a page stays open
MaxDirectoryTicks == 2                 \* clock steps while users are read
DirectoryStep == 30000                 \* milliseconds per such step
MaxLogCalls == 3                       \* calls of BookingSecurityLogger.log
MaxLoggerTicks == 2                    \* clock steps while the logger runs
LoggerStep == 2500                     \* milliseconds per such step
MaxLoaderCalls == 2                    \* withLoader calls of a page
MaxLoaderTicks == 3                    \* clock steps while loaders show
LoaderStep == 5000                     \* milliseconds per such step
MaxLogins == 2                         \* dashboard page loads in one browser
MaxDashTicks == 2                      \* clock steps while dashboards load
DashStep == 60000                      \* milliseconds per such step
MaxUploads == 2                        \* handleProofOfPaymentUpload calls
MaxRemovals == 2                       \* removeProofOfPayment calls
StorageStep == 3                       \* tenths of a second per clock step

\* ------------------------------------------------------- program constants
BOOKINGS_CACHE_DURATION == 30000
ClockStep == 15000
GRACE_WINDOW == 10000
USERS_CACHE_DURATION == 60000
GROOMERS_CACHE_DURATION == 60000
MAX_LOGS == 100
defaultTimeout == 10000                \* LoadingManager.defaultTimeout
DASH_CACHE_DURATION == 120000          \* CACHE_DURATION of loadUserBookingsWithCache
logCacheDuration == 5000                \* _cacheDuration, in milliseconds
batchDelay == 500                      \* _batchDelay, in milliseconds
MAX_AGE_bookings == 90                 \* MAX_AGE, in days
MAX_AGE_bookingHistory == 30
MAX_AGE_securityLogs == 7
MAX_AGE_actionLocks == 1
GraceStep == 5000

\* null / an absent localStorage item, and a present list.
Null == [null |-> TRUE, list |-> {}]
Some(list) == [null |-> FALSE, list |-> list]
\* NaN in a numeric field, and a missing id.
NaN == -1
NoId == 0
NoErr == [code |-> "", message |-> ""]

\* Errors the Firebase SDK rejects a request with.
PermErr == [code |-> "PERMISSION_DENIED", message |-> "Permission denied"]
PermErrLower == [code |-> "PERMISSION_DENIED", message |-> "permission_denied at /bookings"]
NetErr == [code |-> "NETWORK_ERROR", message |-> "Network Error"]
DuplicateErr == [code |-> "",
                 message |-> "Booking creation failed - possible duplicate detected"]
NoDbErr == [code |-> "", message |-> "Firebase Database not initialized"]
RemoteErrors == {PermErr, PermErrLower, NetErr}

\* error.message.includes('Permission denied'): case-sensitive substring.
IncludesPermissionDenied(msg) == msg \in {"Permission denied"}

\* message.toLowerCase().includes('permission')
LowerIncludesPermission(msg) ==
    msg \in {"Permission denied", "permission_denied at /bookings"}

\* ------------------------------------------------------------------- data
Calls == 1..MaxCalls
\* Two pages (tabs, devices) of the booking wizard, one submission each.
Subs == {1, 2}

\* The customer pages disable their buttons while a booking write runs: one at a time.
Writes == {1}

\* The booking the session starts with and the one the customer creates.
Booking(id, user, pet, date, time, status) ==
    [id |-> id, userId |-> user, petName |-> pet, date |-> date, time |-> time,
     status |-> status, totalPrice |-> 0, serverGenerated |-> FALSE,
     createdAt |-> 0]

B1 == Booking(1, "u1", "Max", "2025-06-01", "10:00 AM", "pending")
B2 == Booking(2, "u1", "Bella", "2025-06-08", "2:00 PM", "pending")

\* Statuses updateBooking's callers write (customer.js: cancelBooking, proof upload).
UpdateStatuses == {"pending", "cancelledByCustomer"}

\* JSON.stringify(bookings): NaN is written as null.
\* null in a numeric field of a JSON text.
JsonNull == -2
ToJson(b) == IF b.totalPrice = NaN THEN [b EXCEPT !.totalPrice = JsonNull] ELSE b
JSONstringify(list) == Some({ToJson(b) : b \in list})

\* JSON.parse(localStorage.getItem('bookings') || '[]')
ParseLocal(item) == IF item.null THEN {} ELSE item.list

\* set(ref(db, 'bookings/' + b.id), b): full replace of one child.
Put(coll, b) == {r \in coll : r.id # b.id} \cup {b}

\* Object.keys(data).map(key => ({id: key, ...data[key]}))
SnapshotList(coll) == coll

VARIABLES
    remote,                   \* the bookings collection of the backing store
    rver,                     \* how many writes the backing store has applied
    bookingsCache,            \* let bookingsCache = null
    cacheAsOf,                \* rver of the snapshot bookingsCache holds
    bookingsCacheTime,        \* let bookingsCacheTime = 0
    bookingsPermissionDenied, \* let bookingsPermissionDenied = false
    firebaseWriteDenied,      \* window.firebaseWriteDenied
    localBookings,            \* localStorage['bookings']
    localAsOf,                \* rver of the snapshot localBookings holds
    dbAvailable,              \* window.firebaseDatabase is set
    now,                      \* Date.now()
    calls,                    \* getBookings calls
    writes,                   \* createBooking / updateBooking / saveBookings calls
    updatedVer,               \* rver of the last write an updateBooking caller saw succeed
    listener,                 \* the onValue subscription of setupBookingsListener
    lastReadError,            \* the error of the getBookings call that returned last
    subs,                     \* booking submissions (submitBooking)
    nextId,                   \* ids handed to new bookings so far
    localStorage,             \* the browser's key-value store, by key
    writeQueue,               \* StorageManager._writeQueue, in insertion order
    writeTimeout,             \* StorageManager._writeTimeout (0: null)
    timers,                   \* the setTimeout timers that are pending
    nextTimer,                \* the id the next setTimeout returns
    dateNow,                  \* Date.now() as the storage manager reads it
    smResult,                 \* what the last StorageManager call did
    remoteUsers,              \* the users collection of the backing store
    usersCache,               \* let usersCache = null
    usersCacheTime,           \* let usersCacheTime = 0
    usersPermissionDenied,    \* let usersPermissionDenied = false
    localUsers,               \* localStorage item 'users'
    getUsersImpl,             \* whether window.getUsersImpl is a function
    usersCall,                \* the getUsers call
    lastUsersRead,            \* the remote read getUsers completed last
    remoteGroomers,           \* the groomers collection of the backing store
    groomersCache,            \* let groomersCache = null
    groomersCacheTime,        \* let groomersCacheTime = 0
    groomersPermissionDenied, \* let groomersPermissionDenied = false
    localGroomers,            \* localStorage item 'groomers'
    groomersCall,             \* the getGroomers call
    lastGroomersRead,         \* the remote read getGroomers completed last
    persistedLogs,            \* localStorage item 'bookingSecurityLogs', as a list
    logCache,                 \* BookingSecurityLogger._cache
    logCacheTime,             \* BookingSecurityLogger._cacheTime
    appended,                 \* every entry saveLog has pushed, in order
    logResult,                \* what the last log call did
    loaderClock,              \* the time the page's timers run on
    globalLoader,             \* the #global-loader overlay of the document
    loadingTimeouts,          \* LoadingManager.loadingTimeouts of 'global-loader'
    errorShown,               \* LoadingManager.showError has put up an error
    loaderOps,                \* LoadingManager.withLoader calls
    dashNow,                  \* Date.now() as the dashboard reads it
    currentUser,              \* the user getCurrentUser resolves to
    logins,                   \* dashboard page loads so far
    dashBookings,             \* the list getBookings resolves to, for the dashboard
    customerBookingsCache,    \* let customerBookingsCache = []
    userBookingsCacheItem,    \* localStorage item 'userBookings_cache'
    quickStats,               \* the #quickStats element
    bookingsLoad,             \* the loadUserBookingsWithCache call of the page
    statsLoad,                \* the loadQuickStats call of the page
    lastFiltered,             \* the last list the user filter produced, and for whom
    isProcessing,             \* window.ButtonProtection.isProcessing
    upload,                   \* the handleProofOfPaymentUpload call in progress
    uploads,                  \* handleProofOfPaymentUpload calls so far
    resetTimers,              \* pending timers that reset isProcessing
    isRemovingProof,          \* let isRemovingProof = false
    removals,                 \* removeProofOfPayment calls
    overlayShown,             \* the loading overlay of showLoadingOverlay
    proofOfPaymentImage       \* the proof the booking carries at the backing store

vars == <<remote, rver, bookingsCache, cacheAsOf, bookingsCacheTime,
          bookingsPermissionDenied, firebaseWriteDenied, localBookings, localAsOf,
          dbAvailable, now, calls, writes, updatedVer, listener, lastReadError,
          subs, nextId, localStorage, writeQueue, writeTimeout, timers, nextTimer,
          dateNow, smResult, remoteUsers, usersCache, usersCacheTime,
          usersPermissionDenied, localUsers, getUsersImpl, usersCall, lastUsersRead,
          remoteGroomers, groomersCache, groomersCacheTime, groomersPermissionDenied,
          localGroomers, groomersCall, lastGroomersRead, persistedLogs, logCache,
          logCacheTime, appended, logResult, loaderClock, globalLoader,
          loadingTimeouts, errorShown, loaderOps, dashNow, currentUser, logins,
          dashBookings, customerBookingsCache, userBookingsCacheItem, quickStats,
          bookingsLoad, statsLoad, lastFiltered, isProcessing, upload, uploads,
          resetTimers, isRemovingProof, removals, overlayShown, proofOfPaymentImage>>

gatewayCache == <<bookingsCache, cacheAsOf, bookingsCacheTime>>
localCopy == <<localBookings, localAsOf>>
callVars == <<calls, lastReadError>>
subVars == <<subs, nextId>>
storageVars == <<localStorage, writeQueue, writeTimeout, timers, nextTimer,
                 dateNow, smResult>>
userVars == <<remoteUsers, usersCache, usersCacheTime, usersPermissionDenied,
              localUsers, getUsersImpl, usersCall, lastUsersRead>>
groomerVars == <<remoteGroomers, groomersCache, groomersCacheTime,
                 groomersPermissionDenied, localGroomers, groomersCall,
                 lastGroomersRead>>
directoryVars == <<userVars, groomerVars>>
loggerVars == <<persistedLogs, logCache, logCacheTime, appended, logResult>>
loaderVars == <<loaderClock, globalLoader, loadingTimeouts, errorShown, loaderOps>>
globalLoaderVars == <<loaderClock, globalLoader, loadingTimeouts, loaderOps>>
dashVars == <<dashNow, currentUser, logins, dashBookings, customerBookingsCache,
              userBookingsCacheItem, quickStats, bookingsLoad, statsLoad, lastFiltered>>
proofVars == <<isProcessing, upload, uploads, resetTimers, isRemovingProof,
               removals, overlayShown, proofOfPaymentImage>>
pageVars == <<loaderVars, dashVars, proofVars>>
uiVars == <<loggerVars, pageVars>>
gatewayVars == <<remote, rver, bookingsCache, cacheAsOf, bookingsCacheTime,
                 bookingsPermissionDenied, firebaseWriteDenied, localBookings,
                 localAsOf, dbAvailable, now, calls, writes, updatedVer, listener,
                 lastReadError, subs, nextId>>

NoBooking == Booking(NoId, "", "", "", "", "")

\* A submission of the booking wizard, with the state of its page.
NoCandidate == [userId |-> "", petName |-> "", date |-> "", time |-> ""]
IdleSub == [pc |-> "idle", cand |-> NoCandidate, known |-> {}, booking |-> NoBooking,
            via |-> "none", committed |-> FALSE, snapshot |-> Null, err |-> NoErr,
            outcome |-> "none", result |-> NoBooking,
            isSubmittingBooking |-> FALSE, loading |-> FALSE, token |-> "none",
            step |-> 5, writeDenied |-> FALSE]

\* ------------------------------------------------------ getUsers, getGroomers
\* src/js/firebase-db.js, lines 134 to 216 and 645 to 709.  A list of users or
\* groomers is the set of their ids.

DEFAULT_GROOMERS == {"groomer-1", "groomer-2", "groomer-3"}

\* One call of getUsers or getGroomers: where it stands, what the request was
\* answered with, what it returned, how many remote reads it started, and
\* whether it was served from the cache.
IdleRead == [pc |-> "idle", served |-> {}, err |-> NoErr, result |-> {},
             reads |-> 0, hit |-> FALSE]
ReadReturned(list, reads, hit) ==
    [IdleRead EXCEPT !.pc = "returned", !.result = list, !.reads = reads, !.hit = hit]

\* The last call that completed a read, when it read the remote list.
NoRead == [ok |-> FALSE, list |-> {}, at |-> 0]
RemoteRead(list, at) == [ok |-> TRUE, list |-> list, at |-> at]

\* usersCache && (Date.now() - usersCacheTime) < USERS_CACHE_DURATION
UsersCacheFresh == ~usersCache.null /\ now - usersCacheTime < USERS_CACHE_DURATION

\* The localStorage fallback at the end of getUsers; the Firestore branch is
\* skipped, no db with a collection function being in scope.
LocalUsers == ParseLocal(localUsers)

\* e.code === 'PERMISSION_DENIED' || e.message.toLowerCase().includes('permission')
IsUsersPermissionDenied(err) ==
    err.code = "PERMISSION_DENIED" \/ LowerIncludesPermission(err.message)

getUsersStart ==
    /\ usersCall.pc \in {"idle", "returned"}
    /\ IF usersPermissionDenied
       THEN usersCall' = ReadReturned(LocalUsers, 0, FALSE) /\ lastUsersRead' = NoRead
       ELSE IF UsersCacheFresh
       THEN usersCall' = ReadReturned(usersCache.list, 0, TRUE)
            /\ UNCHANGED lastUsersRead
       ELSE IF getUsersImpl
       THEN usersCall' = [IdleRead EXCEPT !.pc = "awaitImpl", !.reads = 1]
            /\ UNCHANGED lastUsersRead
       ELSE IF dbAvailable
       THEN usersCall' = [IdleRead EXCEPT !.pc = "awaitGet", !.reads = 1]
            /\ UNCHANGED lastUsersRead
       ELSE usersCall' = ReadReturned(LocalUsers, 0, FALSE) /\ lastUsersRead' = NoRead
    /\ UNCHANGED <<usersCache, usersCacheTime, usersPermissionDenied, localUsers,
                   remoteUsers, getUsersImpl, groomerVars, storageVars, uiVars, gatewayVars>>

\* window.getUsersImpl() settles.
ImplServe ==
    /\ usersCall.pc = "awaitImpl"
    /\ \E err \in {NoErr, NetErr} :
          usersCall' = [usersCall EXCEPT !.pc = "servedImpl", !.err = err,
                           !.served = IF err = NoErr THEN remoteUsers ELSE {}]
    /\ UNCHANGED <<usersCache, usersCacheTime, usersPermissionDenied, localUsers,
                   remoteUsers, getUsersImpl, lastUsersRead, groomerVars, storageVars, uiVars,
                   gatewayVars>>

getUsersImplResume ==
    /\ usersCall.pc = "servedImpl"
    /\ IF usersCall.err = NoErr
       THEN /\ usersCache' = Some(usersCall.served)
            /\ usersCacheTime' = now
            /\ usersCall' = ReadReturned(usersCall.served, usersCall.reads, FALSE)
            /\ lastUsersRead' = RemoteRead(usersCall.served, now)
       ELSE /\ IF dbAvailable
               THEN usersCall' = [IdleRead EXCEPT !.pc = "awaitGet",
                                                  !.reads = usersCall.reads + 1]
                    /\ UNCHANGED lastUsersRead
               ELSE usersCall' = ReadReturned(LocalUsers, usersCall.reads, FALSE)
                    /\ lastUsersRead' = NoRead
            /\ UNCHANGED <<usersCache, usersCacheTime>>
    /\ UNCHANGED <<usersPermissionDenied, localUsers, remoteUsers, getUsersImpl,
                   groomerVars, storageVars, uiVars, gatewayVars>>

\* get(ref(db, 'users')) settles.
RemoteServeUsers ==
    /\ usersCall.pc = "awaitGet"
    /\ \E err \in {NoErr} \cup RemoteErrors :
          usersCall' = [usersCall EXCEPT !.pc = "servedGet", !.err = err,
                           !.served = IF err = NoErr THEN remoteUsers ELSE {}]
    /\ UNCHANGED <<usersCache, usersCacheTime, usersPermissionDenied, localUsers,
                   remoteUsers, getUsersImpl, lastUsersRead, groomerVars, storageVars, uiVars,
                   gatewayVars>>

getUsersResume ==
    /\ usersCall.pc = "servedGet"
    /\ IF usersCall.err = NoErr
       THEN /\ usersCall' = ReadReturned(usersCall.served, usersCall.reads, FALSE)
            /\ lastUsersRead' = RemoteRead(usersCall.served, now)
            /\ UNCHANGED <<usersCache, usersCacheTime, usersPermissionDenied>>
       ELSE IF IsUsersPermissionDenied(usersCall.err)
       THEN /\ usersPermissionDenied' = TRUE
            /\ usersCache' = Some(LocalUsers)
            /\ usersCacheTime' = now
            /\ usersCall' = ReadReturned(LocalUsers, usersCall.reads, FALSE)
            /\ lastUsersRead' = NoRead
       ELSE /\ usersCall' = ReadReturned(LocalUsers, usersCall.reads, FALSE)
            /\ lastUsersRead' = NoRead
            /\ UNCHANGED <<usersCache, usersCacheTime, usersPermissionDenied>>
    /\ UNCHANGED <<localUsers, remoteUsers, getUsersImpl, groomerVars, storageVars, uiVars,
                   gatewayVars>>

\* groomersCache && groomersCache.length > 0 && (Date.now() - groomersCacheTime)
\* < GROOMERS_CACHE_DURATION
GroomersCacheFresh ==
    /\ ~groomersCache.null
    /\ groomersCache.list # {}
    /\ now - groomersCacheTime < GROOMERS_CACHE_DURATION

\* localGroomers && localGroomers.length > 0 ? localGroomers : DEFAULT_GROOMERS
LocalOrDefaultGroomers ==
    IF ~localGroomers.null /\ localGroomers.list # {} THEN localGroomers.list
    ELSE DEFAULT_GROOMERS

getGroomersStart ==
    /\ groomersCall.pc \in {"idle", "returned"}
    /\ IF groomersPermissionDenied
       THEN groomersCall' = ReadReturned(LocalOrDefaultGroomers, 0, FALSE)
            /\ lastGroomersRead' = NoRead
       ELSE IF GroomersCacheFresh
       THEN groomersCall' = ReadReturned(groomersCache.list, 0, TRUE)
            /\ UNCHANGED lastGroomersRead
       ELSE IF ~dbAvailable
       THEN groomersCall' = ReadReturned(LocalOrDefaultGroomers, 0, FALSE)
            /\ lastGroomersRead' = NoRead
       ELSE groomersCall' = [IdleRead EXCEPT !.pc = "awaitGet", !.reads = 1]
            /\ UNCHANGED lastGroomersRead
    /\ UNCHANGED <<groomersCache, groomersCacheTime, groomersPermissionDenied,
                   localGroomers, remoteGroomers, userVars, storageVars, uiVars, gatewayVars>>

\* get(ref(db, 'groomers')) settles.
RemoteServeGroomers ==
    /\ groomersCall.pc = "awaitGet"
    /\ \E err \in {NoErr} \cup RemoteErrors :
          groomersCall' = [groomersCall EXCEPT !.pc = "servedGet", !.err = err,
                              !.served = IF err = NoErr THEN remoteGroomers ELSE {}]
    /\ UNCHANGED <<groomersCache, groomersCacheTime, groomersPermissionDenied,
                   localGroomers, remoteGroomers, lastGroomersRead, userVars,
                   storageVars, uiVars, gatewayVars>>

\* The catch block of getGroomers: the fallback list is returned and cached.
GroomersFallback(denied) ==
    /\ groomersPermissionDenied' = (groomersPermissionDenied \/ denied)
    /\ groomersCache' = Some(LocalOrDefaultGroomers)
    /\ groomersCacheTime' = now
    /\ groomersCall' = ReadReturned(LocalOrDefaultGroomers, groomersCall.reads, FALSE)
    /\ lastGroomersRead' = NoRead
    /\ UNCHANGED localGroomers

getGroomersResume ==
    /\ groomersCall.pc = "servedGet"
    /\ IF groomersCall.err # NoErr
       THEN GroomersFallback(IncludesPermissionDenied(groomersCall.err.message))
       ELSE IF groomersCall.served = {}
       THEN /\ groomersCall' = ReadReturned(DEFAULT_GROOMERS, groomersCall.reads, FALSE)
            /\ lastGroomersRead' = NoRead
            /\ UNCHANGED <<groomersCache, groomersCacheTime, groomersPermissionDenied,
                           localGroomers>>
       ELSE \E quotaExceeded \in BOOLEAN :
               IF quotaExceeded
               THEN GroomersFallback(FALSE)
               ELSE /\ groomersCache' = Some(groomersCall.served)
                    /\ groomersCacheTime' = now
                    /\ localGroomers' = Some(groomersCall.served)
                    /\ groomersCall' =
                           ReadReturned(groomersCall.served, groomersCall.reads, FALSE)
                    /\ lastGroomersRead' = RemoteRead(groomersCall.served, now)
                    /\ UNCHANGED groomersPermissionDenied
    /\ UNCHANGED <<remoteGroomers, userVars, storageVars, uiVars, gatewayVars>>

\* Another client adds a user or a groomer.
RemoteDirectoryChange ==
    /\ \/ /\ "u2" \notin remoteUsers
          /\ remoteUsers' = remoteUsers \cup {"u2"}
          /\ UNCHANGED remoteGroomers
       \/ /\ "g2" \notin remoteGroomers
          /\ remoteGroomers' = remoteGroomers \cup {"g2"}
          /\ UNCHANGED remoteUsers
    /\ UNCHANGED <<usersCache, usersCacheTime, usersPermissionDenied, localUsers,
                   getUsersImpl, usersCall, lastUsersRead, groomersCache,
                   groomersCacheTime, groomersPermissionDenied, localGroomers,
                   groomersCall, lastGroomersRead, storageVars, uiVars, gatewayVars>>

TickDirectory ==
    /\ now < BOOKINGS_CACHE_DURATION + MaxDirectoryTicks * DirectoryStep
    /\ now' = now + DirectoryStep
    /\ UNCHANGED <<remote, rver, gatewayCache, bookingsPermissionDenied,
                   firebaseWriteDenied, localCopy, dbAvailable, callVars, writes,
                   updatedVer, listener, subVars, storageVars, directoryVars, uiVars>>

\* Nobody asks for users or groomers.
DirectoryIdle ==
    /\ usersCache = Null
    /\ usersCacheTime = 0
    /\ usersPermissionDenied = FALSE
    /\ localUsers = Null
    /\ remoteUsers = {}
    /\ getUsersImpl = FALSE
    /\ usersCall = IdleRead
    /\ lastUsersRead = NoRead
    /\ groomersCache = Null
    /\ groomersCacheTime = 0
    /\ groomersPermissionDenied = FALSE
    /\ localGroomers = Null
    /\ remoteGroomers = {}
    /\ groomersCall = IdleRead
    /\ lastGroomersRead = NoRead

\* ------------------------------------------------------ BookingSecurityLogger
\* src/js/booking-security-logger.js.  The persisted log and the cache are lists
\* of entries; an entry carries its place in the order of appending.

NoLogs == [null |-> TRUE, list |-> <<>>]
SomeLogs(list) == [null |-> FALSE, list |-> list]
LogEntry(id, timestamp, level) == [id |-> id, timestamp |-> timestamp, level |-> level]
NoLogEntry == LogEntry(0, 0, "none")

\* The levels determineLevel gives; "info" entries are skipped in production.
LogLevels == {"info", "warning", "error", "security"}

\* if (logs.length > this.MAX_LOGS) logs.splice(0, logs.length - this.MAX_LOGS)
Trim_DropNewest(logs) ==
    IF Len(logs) > MAX_LOGS THEN SubSeq(logs, 1, MAX_LOGS) ELSE logs
Trim(logs) ==
    IF Len(logs) > MAX_LOGS
    THEN SubSeq(logs, Len(logs) - MAX_LOGS + 1, Len(logs))
    ELSE logs

\* this._cache && (Date.now() - this._cacheTime) < this._cacheDuration
LogCacheFresh == ~logCache.null /\ now - logCacheTime < logCacheDuration

\* getLogs(): the cached array, or the stored one, which becomes the cache.
getLogs == IF LogCacheFresh THEN logCache.list ELSE persistedLogs.list

\* log(action, details) with the level of the action; saveLog pushes onto the
\* array getLogs returned, which is the cached array itself, so the cache holds
\* the new entry even when setItem throws.
log(level) ==
    /\ logResult.calls < MaxLogCalls
    /\ IF level = "info"
       THEN /\ logResult' = [calls |-> logResult.calls + 1, entry |-> NoLogEntry,
                             written |-> FALSE, failed |-> logResult.failed]
            /\ UNCHANGED <<persistedLogs, logCache, logCacheTime, appended>>
       ELSE LET entry == LogEntry(Len(appended) + 1, now, level)
                logs == Trim(Append(getLogs, entry))
            IN  /\ appended' = Append(appended, entry)
                /\ logCache' = SomeLogs(logs)
                /\ \E quotaExceeded \in BOOLEAN :
                      IF quotaExceeded
                      THEN /\ logCacheTime' = IF LogCacheFresh THEN logCacheTime ELSE now
                           /\ logResult' = [calls |-> logResult.calls + 1,
                                            entry |-> entry, written |-> FALSE,
                                            failed |-> TRUE]
                           /\ UNCHANGED persistedLogs
                      ELSE /\ persistedLogs' = SomeLogs(logs)
                           /\ logCacheTime' = now
                           /\ logResult' = [calls |-> logResult.calls + 1,
                                            entry |-> entry, written |-> TRUE,
                                            failed |-> logResult.failed]
    /\ UNCHANGED <<gatewayVars, storageVars, directoryVars, pageVars>>

TickLogger ==
    /\ now < BOOKINGS_CACHE_DURATION + MaxLoggerTicks * LoggerStep
    /\ now' = now + LoggerStep
    /\ UNCHANGED <<remote, rver, gatewayCache, bookingsPermissionDenied,
                   firebaseWriteDenied, localCopy, dbAvailable, callVars, writes,
                   updatedVer, listener, subVars, storageVars, directoryVars, uiVars>>

NoLogResult == [calls |-> 0, entry |-> NoLogEntry, written |-> FALSE, failed |-> FALSE]

\* Nothing has been logged.
LoggerIdle ==
    /\ persistedLogs = NoLogs
    /\ logCache = NoLogs
    /\ logCacheTime = 0
    /\ appended = <<>>
    /\ logResult = NoLogResult

\* ------------------------------------------------------------ LoadingManager
\* src/js/loading-manager.js.  The document holds at most one #global-loader
\* overlay, since showGlobalLoader removes the one it finds before it adds one.

NoGlobalLoader == [visible |-> FALSE, shownAt |-> 0, timeout |-> 0]
NoTimeout == [armed |-> FALSE, due |-> 0]

\* The timeout option of a call: none, a short one, the default.
Timeouts == {0, LoaderStep, defaultTimeout}

\* showGlobalLoader(message, timeout): hideGlobalLoader(), then the overlay is
\* appended and, if (timeout > 0), a timer that calls hideGlobalLoader is set.
ShownLoader(timeout) == [visible |-> TRUE, shownAt |-> loaderClock, timeout |-> timeout]
TimeoutFor(timeout) ==
    IF timeout > 0 THEN [armed |-> TRUE, due |-> loaderClock + timeout] ELSE NoTimeout

\* hideGlobalLoader(): the overlay removed, the timer cleared and forgotten.
hideGlobalLoader ==
    /\ globalLoader' = NoGlobalLoader
    /\ loadingTimeouts' = NoTimeout

IdleOp == [pc |-> "idle", global |-> FALSE, timeout |-> 0, startedAt |-> 0]
LoaderCalls == 1..MaxLoaderCalls

\* withLoader(asyncFn, {global, timeout}) up to its await asyncFn(); no
\* container is given, so a call that is not global shows nothing.
withLoaderStart(c, global, timeout) ==
    /\ loaderOps[c].pc = "idle"
    /\ IF c = 1 THEN TRUE ELSE loaderOps[c - 1].pc # "idle"
    /\ loaderOps' = [loaderOps EXCEPT ![c] = [pc |-> "pending", global |-> global,
                                               timeout |-> timeout,
                                               startedAt |-> loaderClock]]
    /\ IF global
       THEN /\ globalLoader' = ShownLoader(timeout)
            /\ loadingTimeouts' = TimeoutFor(timeout)
       ELSE UNCHANGED <<globalLoader, loadingTimeouts>>
    /\ UNCHANGED <<loaderClock, errorShown, gatewayVars, storageVars,
                   directoryVars, loggerVars, dashVars, proofVars>>

\* asyncFn settles, resolved or rejected: finally { if (global)
\* this.hideGlobalLoader() }.
withLoaderSettle(c, resolved) ==
    /\ loaderOps[c].pc = "pending"
    /\ loaderOps' = [loaderOps EXCEPT ![c].pc = IF resolved THEN "resolved" ELSE "rejected"]
    /\ IF loaderOps[c].global
       THEN hideGlobalLoader
       ELSE UNCHANGED <<globalLoader, loadingTimeouts>>
    /\ UNCHANGED <<loaderClock, errorShown, gatewayVars, storageVars,
                   directoryVars, loggerVars, dashVars, proofVars>>

\* The timer showGlobalLoader set: () => { this.hideGlobalLoader() }.
GlobalTimeoutFires ==
    /\ loadingTimeouts.armed
    /\ loadingTimeouts.due <= loaderClock
    /\ hideGlobalLoader
    /\ UNCHANGED <<loaderClock, errorShown, loaderOps, gatewayVars, storageVars,
                   directoryVars, loggerVars, dashVars, proofVars>>

\* Time passes; a timer that is due runs before more time passes.
TickLoader ==
    /\ loaderClock < MaxLoaderTicks * LoaderStep
    /\ ~(loadingTimeouts.armed /\ loadingTimeouts.due <= loaderClock)
    /\ loaderClock' = loaderClock + LoaderStep
    /\ UNCHANGED <<globalLoader, loadingTimeouts, errorShown, loaderOps, gatewayVars,
                   storageVars, directoryVars, loggerVars, dashVars, proofVars>>

LoaderIdle ==
    /\ loaderClock = 0
    /\ globalLoader = NoGlobalLoader
    /\ loadingTimeouts = NoTimeout
    /\ errorShown = FALSE
    /\ loaderOps = [c \in LoaderCalls |-> IdleOp]

\* ------------------------------------------------------- customer dashboard
\* src/js/customer.js.  A booking as the dashboard sees it; an absent field is
\* "".  The bookings of the model carry no customerId, customerEmail or
\* ownerName, and are Pay Now bookings, whose pending state never expires.

DashBooking(id, userId, email, customerName, status) ==
    [id |-> id, userId |-> userId, email |-> email, customerName |-> customerName,
     status |-> status]
User(id, email, name) == [id |-> id, email |-> email, name |-> name]
NoUser == User("", "", "")

\* Two customers of the same name, and bookings: one of each customer, and one
\* stored without a userId under the first customer's email.
UserA == User("uA", "a@x", "Sam")
UserB == User("uB", "b@x", "SAM")
DashUsers == {UserA, UserB}
DashPool ==
    {DashBooking(1, "uA", "a@x", "", "pending"),
     DashBooking(2, "uB", "b@x", "SAM", "confirmed"),
     DashBooking(3, "", "A@X", "", "cancelled")}

\* String.prototype.toLowerCase, on the strings of the model.
ToLowerCase(str) ==
    CASE str = "A@X" -> "a@x"
      [] str = "Sam" -> "sam"
      [] str = "SAM" -> "sam"
      [] OTHER -> str

\* The filter of getUserBookings and of the bookings subscription.
MatchesUser(user, b) ==
    \/ b.userId = user.id
    \/ user.email # "" /\ b.email # "" /\ ToLowerCase(b.email) = ToLowerCase(user.email)
    \/ user.name # "" /\ b.customerName # ""
       /\ ToLowerCase(b.customerName) = ToLowerCase(user.name)

\* getUserBookings(), once getCurrentUser and getBookings have resolved.
UserBookings(user, allBookings) ==
    IF user = NoUser THEN {} ELSE {b \in allBookings : MatchesUser(user, b)}

NoFiltered == [user |-> NoUser, list |-> {}]

\* What #quickStats holds: nothing, the loader, or the four stat cards.
Markup(kind, total, pending, confirmed, cancelled) ==
    [kind |-> kind, total |-> total, pending |-> pending, confirmed |-> confirmed,
     cancelled |-> cancelled]
EmptyMarkup == Markup("empty", 0, 0, 0, 0)
LoaderMarkup == Markup("loader", 0, 0, 0, 0)
AbsentData == Markup("absent", 0, 0, 0, 0)
StatsMarkup(bookings) ==
    Markup("stats", Cardinality(bookings),
           Cardinality({b \in bookings : b.status = "pending"}),
           Cardinality({b \in bookings : b.status = "confirmed"}),
           Cardinality({b \in bookings : b.status = "cancelled"}))
EmptyContainer == [html |-> EmptyMarkup, originalContent |-> AbsentData]

\* showContainerLoader: element.dataset.originalContent = element.innerHTML,
\* then the loader markup replaces the content.
showContainerLoader(element) == [html |-> LoaderMarkup, originalContent |-> element.html]

\* hideContainerLoader: if (element.dataset.originalContent) the saved content
\* is put back; an empty string is falsy, like an absent attribute.
RestoreOriginal(element) == element.originalContent.kind \notin {"absent", "empty"}
hideContainerLoader(element) ==
    IF RestoreOriginal(element)
    THEN [html |-> element.originalContent, originalContent |-> AbsentData]
    ELSE element

NoCacheItem == [null |-> TRUE, data |-> {}, timestamp |-> 0]
IdleLoad == [pc |-> "idle", hit |-> FALSE, result |-> {}]
IdleStats == [pc |-> "idle", bookings |-> {}, failed |-> FALSE]

\* clearCurrentUser(), setCurrentUser(user) and the dashboard page loading for
\* that user: the page's variables and elements are new, localStorage is kept.
OpenDashboard(user) ==
    /\ logins < MaxLogins
    /\ user # currentUser
    /\ currentUser' = user
    /\ logins' = logins + 1
    /\ customerBookingsCache' = {}
    /\ quickStats' = EmptyContainer
    /\ bookingsLoad' = IdleLoad
    /\ statsLoad' = IdleStats
    /\ lastFiltered' = NoFiltered
    /\ UNCHANGED <<dashNow, dashBookings, userBookingsCacheItem, loaderVars,
                   gatewayVars, storageVars, directoryVars, loggerVars, proofVars>>

\* const { data, timestamp } = JSON.parse(cached);
\* if (Date.now() - timestamp < CACHE_DURATION)
DashCacheFresh ==
    /\ ~userBookingsCacheItem.null
    /\ dashNow - userBookingsCacheItem.timestamp < DASH_CACHE_DURATION

\* loadUserBookingsWithCache() up to its await loadUserBookings().
loadUserBookingsWithCacheStart ==
    /\ currentUser # NoUser
    /\ bookingsLoad.pc = "idle"
    /\ IF DashCacheFresh
       THEN /\ customerBookingsCache' = userBookingsCacheItem.data
            /\ bookingsLoad' = [pc |-> "done", hit |-> TRUE,
                                result |-> userBookingsCacheItem.data]
       ELSE /\ bookingsLoad' = [bookingsLoad EXCEPT !.pc = "loading"]
            /\ UNCHANGED customerBookingsCache
    /\ UNCHANGED <<dashNow, currentUser, logins, dashBookings, userBookingsCacheItem,
                   quickStats, statsLoad, lastFiltered, loaderVars, gatewayVars,
                   storageVars, directoryVars, loggerVars, proofVars>>

\* loadUserBookings() has resolved: customerBookingsCache is what
\* getUserBookings returned, and a list that is not empty is stored with the
\* time, unless setItem throws.
loadUserBookingsWithCacheResume(stored) ==
    /\ bookingsLoad.pc = "loading"
    /\ LET filtered == UserBookings(currentUser, dashBookings)
       IN  /\ customerBookingsCache' = filtered
           /\ lastFiltered' = [user |-> currentUser, list |-> filtered]
           /\ bookingsLoad' = [pc |-> "done", hit |-> FALSE, result |-> filtered]
           /\ userBookingsCacheItem' =
                 IF filtered # {} /\ stored
                 THEN [null |-> FALSE, data |-> filtered, timestamp |-> dashNow]
                 ELSE userBookingsCacheItem
    /\ UNCHANGED <<dashNow, currentUser, logins, dashBookings, quickStats, statsLoad,
                   loaderVars, gatewayVars, storageVars, directoryVars, loggerVars, proofVars>>

\* loadQuickStats() from showTableLoader on: with bookings in
\* customerBookingsCache it runs to its end without an await; otherwise it
\* awaits getUserBookings().
RenderedStats(element, bookings) ==
    hideContainerLoader([element EXCEPT !.html = StatsMarkup(bookings)])
StatsBegun(cache, element) ==
    IF cache # {}
    THEN /\ quickStats' = RenderedStats(showContainerLoader(element), cache)
         /\ statsLoad' = [pc |-> "done", bookings |-> cache, failed |-> FALSE]
    ELSE /\ quickStats' = showContainerLoader(element)
         /\ statsLoad' = [pc |-> "loading", bookings |-> {}, failed |-> FALSE]

loadQuickStatsStart ==
    /\ currentUser # NoUser
    /\ statsLoad.pc # "loading"
    /\ StatsBegun(customerBookingsCache, quickStats)
    /\ UNCHANGED <<dashNow, currentUser, logins, dashBookings, customerBookingsCache,
                   userBookingsCacheItem, bookingsLoad, lastFiltered, loaderVars,
                   gatewayVars, storageVars, directoryVars, loggerVars, proofVars>>

\* getUserBookings() has settled.  If it threw, the catch block reports the
\* error; the finally block hides the table loader either way.
loadQuickStatsResume(threw) ==
    /\ statsLoad.pc = "loading"
    /\ LET filtered == UserBookings(currentUser, dashBookings)
       IN  IF threw
           THEN /\ quickStats' = hideContainerLoader(quickStats)
                /\ statsLoad' = [pc |-> "done", bookings |-> {}, failed |-> TRUE]
                /\ errorShown' = TRUE
                /\ UNCHANGED lastFiltered
           ELSE /\ quickStats' = RenderedStats(quickStats, filtered)
                /\ statsLoad' = [pc |-> "done", bookings |-> filtered, failed |-> FALSE]
                /\ lastFiltered' = [user |-> currentUser, list |-> filtered]
                /\ UNCHANGED errorShown
    /\ UNCHANGED <<dashNow, currentUser, logins, dashBookings, customerBookingsCache,
                   userBookingsCacheItem, bookingsLoad, globalLoaderVars, gatewayVars,
                   storageVars, directoryVars, loggerVars, proofVars>>

\* The callback the dashboard gives setupBookingsListener: the bookings of the
\* user are filtered out of the update, customerBookingsCache is replaced and
\* loadQuickStats is called.
BookingsUpdateArrives ==
    /\ currentUser # NoUser
    /\ statsLoad.pc # "loading"
    /\ LET filtered == UserBookings(currentUser, dashBookings)
       IN  /\ customerBookingsCache' = filtered
           /\ lastFiltered' = [user |-> currentUser, list |-> filtered]
           /\ StatsBegun(filtered, quickStats)
    /\ UNCHANGED <<dashNow, currentUser, logins, dashBookings, userBookingsCacheItem,
                   bookingsLoad, loaderVars, gatewayVars, storageVars, directoryVars,
                   loggerVars, proofVars>>

\* A booking is created at the backing store.
RemoteDashChange(b) ==
    /\ b \notin dashBookings
    /\ dashBookings' = dashBookings \cup {b}
    /\ UNCHANGED <<dashNow, currentUser, logins, customerBookingsCache,
                   userBookingsCacheItem, quickStats, bookingsLoad, statsLoad,
                   lastFiltered, loaderVars, gatewayVars, storageVars, directoryVars,
                   loggerVars, proofVars>>

TickDash ==
    /\ dashNow < MaxDashTicks * DashStep
    /\ dashNow' = dashNow + DashStep
    /\ UNCHANGED <<currentUser, logins, dashBookings, customerBookingsCache,
                   userBookingsCacheItem, quickStats, bookingsLoad, statsLoad,
                   lastFiltered, loaderVars, gatewayVars, storageVars, directoryVars,
                   loggerVars, proofVars>>

DashIdle ==
    /\ dashNow = 0
    /\ currentUser = NoUser
    /\ logins = 0
    /\ dashBookings = {}
    /\ customerBookingsCache = {}
    /\ userBookingsCacheItem = NoCacheItem
    /\ quickStats = EmptyContainer
    /\ bookingsLoad = IdleLoad
    /\ statsLoad = IdleStats
    /\ lastFiltered = NoFiltered

\* --------------------------------------------------------- proof of payment
\* src/js/customer.js, lines 2289 to 2458.  window.ButtonProtection, customAlert
\* and the loading overlay are defined outside these sources: what canProceed
\* answers is left open, and a dialog is answered in a step of its own.

Files == {"none", "image", "document", "largeImage"}
IdleUpload == [pc |-> "idle", path |-> "none"]
UploadReturned(path) == [pc |-> "returned", path |-> path]
otherThanProof == <<gatewayVars, storageVars, directoryVars, loggerVars, loaderVars,
                    dashVars>>

\* finally { setTimeout(() => { ButtonProtection.isProcessing = false }, 2000) }
ResetScheduled(pending) == pending + 1

\* handleProofOfPaymentUpload(bookingId, input) up to reader.readAsDataURL.
handleProofOfPaymentUpload(file, canProceed) ==
    /\ uploads < MaxUploads
    /\ upload.pc \in {"idle", "returned"}
    /\ uploads' = uploads + 1
    /\ IF ~canProceed \/ file = "none"
       THEN /\ upload' = UploadReturned("refused")
            /\ UNCHANGED <<isProcessing, overlayShown>>
       ELSE /\ isProcessing' = TRUE
            /\ IF file = "document"
               THEN upload' = UploadReturned("invalidType") /\ UNCHANGED overlayShown
               ELSE IF file = "largeImage"
               THEN upload' = UploadReturned("tooLarge") /\ UNCHANGED overlayShown
               ELSE upload' = [pc |-> "reading", path |-> "none"] /\ overlayShown' = TRUE
    /\ UNCHANGED <<resetTimers, isRemovingProof, removals, proofOfPaymentImage,
                   otherThanProof>>

\* reader.onload up to its await getBookings().
readerOnload ==
    /\ upload.pc = "reading"
    /\ upload' = [upload EXCEPT !.pc = "fetching"]
    /\ UNCHANGED <<isProcessing, uploads, resetTimers, isRemovingProof, removals,
                   overlayShown, proofOfPaymentImage, otherThanProof>>

\* getBookings() has settled: thrown, without the booking, or with it.
uploadBookingsFetched(threw, found) ==
    /\ upload.pc = "fetching"
    /\ IF threw \/ ~found
       THEN /\ overlayShown' = FALSE
            /\ upload' = UploadReturned(IF threw THEN "failed" ELSE "notFound")
            /\ resetTimers' = ResetScheduled(resetTimers)
       ELSE /\ upload' = [upload EXCEPT !.pc = "saving"]
            /\ UNCHANGED <<overlayShown, resetTimers>>
    /\ UNCHANGED <<isProcessing, uploads, isRemovingProof, removals,
                   proofOfPaymentImage, otherThanProof>>

\* updateBooking has settled; after a write that succeeded the handler awaits
\* customAlert.success before it reaches its finally block.
uploadSaved(ok) ==
    /\ upload.pc = "saving"
    /\ overlayShown' = FALSE
    /\ IF ok
       THEN /\ proofOfPaymentImage' = "image"
            /\ upload' = [upload EXCEPT !.pc = "alert"]
            /\ UNCHANGED resetTimers
       ELSE /\ upload' = UploadReturned("failed")
            /\ resetTimers' = ResetScheduled(resetTimers)
            /\ UNCHANGED proofOfPaymentImage
    /\ UNCHANGED <<isProcessing, uploads, isRemovingProof, removals, otherThanProof>>

uploadAlertDismissed ==
    /\ upload.pc = "alert"
    /\ upload' = UploadReturned("uploaded")
    /\ resetTimers' = ResetScheduled(resetTimers)
    /\ UNCHANGED <<isProcessing, uploads, isRemovingProof, removals, overlayShown,
                   proofOfPaymentImage, otherThanProof>>

\* The timer of the finally block runs.
ProcessingResetFires ==
    /\ resetTimers > 0
    /\ resetTimers' = resetTimers - 1
    /\ isProcessing' = FALSE
    /\ UNCHANGED <<upload, uploads, isRemovingProof, removals, overlayShown,
                   proofOfPaymentImage, otherThanProof>>

Removals == 1..MaxRemovals
IdleRemoval == [pc |-> "idle", proceeded |-> FALSE]

\* removeProofOfPayment(bookingId) up to its await customAlert.confirm(...):
\* if (isRemovingProof) return.
removeProofOfPayment(c) ==
    /\ removals[c].pc = "idle"
    /\ removals' = [removals EXCEPT ![c].pc =
                       IF isRemovingProof THEN "returned" ELSE "confirm"]
    /\ UNCHANGED <<isProcessing, upload, uploads, resetTimers, isRemovingProof,
                   overlayShown, proofOfPaymentImage, otherThanProof>>

\* The dialog is answered: if (!confirmed) return; isRemovingProof = true;
\* the overlay is shown and getBookings() awaited.
removeConfirmAnswered(c, confirmed) ==
    /\ removals[c].pc = "confirm"
    /\ IF ~confirmed
       THEN /\ removals' = [removals EXCEPT ![c].pc = "returned"]
            /\ UNCHANGED <<isRemovingProof, overlayShown>>
       ELSE /\ removals' = [removals EXCEPT ![c] = [pc |-> "fetching", proceeded |-> TRUE]]
            /\ isRemovingProof' = TRUE
            /\ overlayShown' = TRUE
    /\ UNCHANGED <<isProcessing, upload, uploads, resetTimers, proofOfPaymentImage,
                   otherThanProof>>

\* getBookings() has settled; finally { isRemovingProof = false } on a return.
removeBookingsFetched(c, threw, found) ==
    /\ removals[c].pc = "fetching"
    /\ IF threw \/ ~found
       THEN /\ removals' = [removals EXCEPT ![c].pc = "returned"]
            /\ overlayShown' = FALSE
            /\ isRemovingProof' = FALSE
       ELSE /\ removals' = [removals EXCEPT ![c].pc = "saving"]
            /\ UNCHANGED <<overlayShown, isRemovingProof>>
    /\ UNCHANGED <<isProcessing, upload, uploads, resetTimers, proofOfPaymentImage,
                   otherThanProof>>

\* updateBooking has settled.
removeSaved(c, ok) ==
    /\ removals[c].pc = "saving"
    /\ removals' = [removals EXCEPT ![c].pc = "returned"]
    /\ proofOfPaymentImage' = IF ok THEN "none" ELSE proofOfPaymentImage
    /\ overlayShown' = FALSE
    /\ isRemovingProof' = FALSE
    /\ UNCHANGED <<isProcessing, upload, uploads, resetTimers, otherThanProof>>

ProofIdle ==
    /\ isProcessing = FALSE
    /\ upload = IdleUpload
    /\ uploads = 0
    /\ resetTimers = 0
    /\ isRemovingProof = FALSE
    /\ removals = [c \in Removals |-> IdleRemoval]
    /\ overlayShown = FALSE
    /\ proofOfPaymentImage = "none"

\* The pages' widgets left alone; the logger and the widgets left alone.
PageIdle == LoaderIdle /\ DashIdle /\ ProofIdle
UiIdle == LoggerIdle /\ PageIdle

\* ------------------------------------------------------------ StorageManager
\* src/unnamed/part_000, lines 302 to 688.  Every method is synchronous, so each
\* is one step.  Times of this part are in tenths of a second, which keeps the
\* 90 days of MAX_AGE.bookings within 32-bit integers.

Tenths(ms) == ms \div 100
DAY == Tenths(24 * 60 * 60 * 1000)
Epoch == 100 * DAY                     \* Date.now() when the page loads
OldTime == Epoch - 91 * DAY
RecentTime == Epoch - Tenths(60 * 60 * 1000)
NearlyOldTime == Epoch - 89 * DAY - Tenths(60 * 60 * 1000)
NoTime == 0                            \* a missing (falsy) createdAt
BatchDelay == Tenths(batchDelay)

StorageKeys == {"bookings", "bookingHistory", "bookingSecurityLogs", "actionLocks",
                "bookingSubmissionStatus", "currentUser"}
CLEANUP_KEYS == {"bookingSecurityLogs", "actionLocks", "bookingSubmissionStatus",
                 "bookingHistory"}

\* A record of a persisted array: a booking, a history entry, a log, a lock.
\* For the last three createdAt holds the entry's own timestamp.
Entry(id, createdAt, date, status) ==
    [id |-> id, createdAt |-> createdAt, date |-> date, status |-> status]

\* new Date(booking.date).getTime()
DateGetTime(date) ==
    CASE date = "old" -> OldTime
      [] date = "recent" -> RecentTime
      [] OTHER -> NaN

\* a < b of JavaScript numbers: false when either side is NaN
LessThan(a, b) == a # NaN /\ b # NaN /\ a < b

\* The string kept under a key, by what JSON.parse makes of it.
AbsentItem == [kind |-> "absent", items |-> {}, text |-> "", size |-> 0]
CorruptItem == [kind |-> "corrupt", items |-> {}, text |-> "", size |-> 1]
ArrayItem(items) ==
    [kind |-> "array", items |-> items, text |-> "", size |-> 1 + Cardinality(items)]

\* The values handed to queueWrite and writeImmediate.
Value(type, text, size) == [type |-> type, text |-> text, size |-> size]
NoValue == Value("none", "", 0)
WriteValues == {Value("string", "a", 2), Value("object", "o", 1),
                Value("circular", "c", 1), Value("string", "huge", Capacity + 1)}
WriteKeys == {"currentUser", "bookingHistory"}

\* typeof value === 'string' ? value : JSON.stringify(value)
CanSerialize(value) == value.type # "circular"
Serialize(value) ==
    IF value.type = "string"
    THEN [kind |-> "text", items |-> {}, text |-> value.text, size |-> value.size]
    ELSE [kind |-> "object", items |-> {}, text |-> value.text,
          size |-> value.size + 2]

TotalSize(store) ==
    store["bookings"].size + store["bookingHistory"].size
    + store["bookingSecurityLogs"].size + store["actionLocks"].size
    + store["bookingSubmissionStatus"].size + store["currentUser"].size

\* localStorage.setItem(key, item) succeeds; otherwise QuotaExceededError
SetItemOk(store, key, item) == TotalSize([store EXCEPT ![key] = item]) <= Capacity
SetItem(store, key, item) == [store EXCEPT ![key] = item]
RemoveItem(store, key) == [store EXCEPT ![key] = AbsentItem]

EssentialStatuses == {"pending", "confirmed", "in-progress"}

\* The keys emergencyCleanup removes outright.
EvictedKeys_None == {}
EvictedKeys == {"bookingSecurityLogs", "actionLocks", "bookingSubmissionStatus",
                "bookingHistory"}

emergencyCleanup(store) ==
    LET evicted == [k \in StorageKeys |->
                       IF k \in EvictedKeys THEN AbsentItem ELSE store[k]]
        stored == evicted["bookings"]
        parsed == IF stored.kind = "absent" THEN ArrayItem({}) ELSE stored
        essential == ArrayItem({b \in parsed.items : b.status \in EssentialStatuses})
    IN  IF parsed.kind = "array" /\ SetItemOk(evicted, "bookings", essential)
        THEN SetItem(evicted, "bookings", essential)
        ELSE RemoveItem(evicted, "bookings")

\* One call of localStorage.setItem made for a key.
Attempt(key, value, ok) == [key |-> key, value |-> value, ok |-> ok]

\* What a method leaves behind: the store, the setItem calls it made, how often
\* it ran emergencyCleanup.
Effect(store, attempts, cleanups) ==
    [store |-> store, attempts |-> attempts, cleanups |-> cleanups]

\* Whether the write is tried again after emergencyCleanup.
RetryAfterCleanup_Never == FALSE
RetryAfterCleanup == TRUE

\* try { setItem } catch (e) { if (e.name === 'QuotaExceededError')
\* { emergencyCleanup(); try { setItem } catch (e2) {} } }
WriteWithRetry(eff, key, value) ==
    IF ~CanSerialize(value)
    THEN eff
    ELSE LET item == Serialize(value)
         IN  IF SetItemOk(eff.store, key, item)
             THEN Effect(SetItem(eff.store, key, item),
                         Append(eff.attempts, Attempt(key, value, TRUE)),
                         eff.cleanups)
             ELSE LET cleaned == emergencyCleanup(eff.store)
                      first == Append(eff.attempts, Attempt(key, value, FALSE))
                  IN  IF ~RetryAfterCleanup
                      THEN Effect(cleaned, first, eff.cleanups + 1)
                      ELSE IF SetItemOk(cleaned, key, item)
                      THEN Effect(SetItem(cleaned, key, item),
                                  Append(first, Attempt(key, value, TRUE)),
                                  eff.cleanups + 1)
                      ELSE Effect(cleaned,
                                  Append(first, Attempt(key, value, FALSE)),
                                  eff.cleanups + 1)

\* Whether the write of the last entry went through.
Written(before, after, value) ==
    /\ CanSerialize(value)
    /\ Len(after.attempts) > Len(before.attempts)
    /\ after.attempts[Len(after.attempts)].ok

\* Whether forEach goes on to the next queued key after a write: the catch
\* block swallows every error.
ContinueAfter_StopOnFailure(written) == written
ContinueAfter(written) == TRUE

RECURSIVE FlushFrom(_, _)
FlushFrom(eff, queue) ==
    IF queue = <<>>
    THEN eff
    ELSE LET entry == Head(queue)
             after == WriteWithRetry(eff, entry.key, entry.value)
         IN  IF ContinueAfter(Written(eff, after, entry.value))
             THEN FlushFrom(after, Tail(queue))
             ELSE after

\* Map.prototype.set: a key already in the map keeps its place and takes the
\* new value; a new key goes last.
QueueEntry(key, value) == [key |-> key, value |-> value]
MapSet(queue, key, value) ==
    IF \E i \in 1..Len(queue) : queue[i].key = key
    THEN [i \in 1..Len(queue) |->
             IF queue[i].key = key THEN QueueEntry(key, value) ELSE queue[i]]
    ELSE Append(queue, QueueEntry(key, value))

\* if (this._writeTimeout) clearTimeout(this._writeTimeout)
ClearPending_Never(pending, timeout) == pending
ClearPending(pending, timeout) == {t \in pending : t.id # timeout}

NoSweep == [archived |-> 0, bookingsError |-> FALSE, history |-> 0, logs |-> 0,
            locks |-> 0]
NoResult == [op |-> "none", key |-> "", value |-> NoValue, ret |-> FALSE,
             attempts |-> <<>>, cleanups |-> 0, flushed |-> <<>>,
             sweep |-> NoSweep, before |-> {}]

queueWrite(key, value) ==
    /\ nextTimer <= MaxTimers
    /\ writeQueue' = MapSet(writeQueue, key, value)
    /\ timers' = ClearPending(timers, writeTimeout)
                     \cup {[id |-> nextTimer, due |-> dateNow + BatchDelay]}
    /\ writeTimeout' = nextTimer
    /\ nextTimer' = nextTimer + 1
    /\ smResult' = [NoResult EXCEPT !.op = "queueWrite", !.key = key,
                                    !.value = value]
    /\ UNCHANGED <<localStorage, dateNow, gatewayVars, directoryVars, uiVars>>

\* The callback of setTimeout: flushWrites.
FlushTimerFires ==
    \E t \in timers :
        /\ t.due <= dateNow
        /\ timers' = timers \ {t}
        /\ IF Len(writeQueue) = 0
           THEN /\ smResult' = [NoResult EXCEPT !.op = "flushNothing"]
                /\ UNCHANGED <<localStorage, writeQueue, writeTimeout>>
           ELSE LET eff == FlushFrom(Effect(localStorage, <<>>, 0), writeQueue)
                IN  /\ localStorage' = eff.store
                    /\ writeQueue' = <<>>
                    /\ writeTimeout' = 0
                    /\ smResult' = [NoResult EXCEPT !.op = "flushWrites",
                                                    !.attempts = eff.attempts,
                                                    !.cleanups = eff.cleanups,
                                                    !.flushed = writeQueue]
        /\ UNCHANGED <<nextTimer, dateNow, gatewayVars, directoryVars, uiVars>>

writeImmediate(key, value) ==
    LET eff == WriteWithRetry(Effect(localStorage, <<>>, 0), key, value)
    IN  /\ localStorage' = eff.store
        /\ smResult' = [NoResult EXCEPT
                           !.op = "writeImmediate", !.key = key, !.value = value,
                           !.ret = Written(Effect(localStorage, <<>>, 0), eff, value),
                           !.attempts = eff.attempts, !.cleanups = eff.cleanups]
        /\ UNCHANGED <<writeQueue, writeTimeout, timers, nextTimer, dateNow,
                       gatewayVars, directoryVars, uiVars>>

\* booking.createdAt || new Date(booking.date).getTime()
BookingDate(booking) ==
    IF booking.createdAt # NoTime THEN booking.createdAt
    ELSE DateGetTime(booking.date)

\* The statuses cleanupOldBookings takes for finished.
CompletedStatuses_All == {"completed", "cancelled", "no-show", "pending"}
CompletedStatuses == {"completed", "cancelled", "no-show"}

Cutoff(days) == dateNow - days * DAY

\* The entries of a stored array that a category's filter keeps.
KeptBookings(items) ==
    {b \in items : ~(/\ LessThan(BookingDate(b), Cutoff(MAX_AGE_bookings))
                     /\ b.status \in CompletedStatuses)}
KeptHistory(items) == {e \in items : e.createdAt > Cutoff(MAX_AGE_bookingHistory)}
KeptLogs(items) == {e \in items : e.createdAt > Cutoff(MAX_AGE_securityLogs)}
KeptLocks(items) == {e \in items : ~(e.createdAt < Cutoff(MAX_AGE_actionLocks))}

\* One category of the sweep: parse, filter, write back when something went.
\* Anything but a stored array is left as it is (absent, not an array, or a
\* parse error caught by the category's own try).
SweepCategory(store, key, kept) ==
    IF store[key].kind = "array" /\ kept # store[key].items
          /\ SetItemOk(store, key, ArrayItem(kept))
    THEN SetItem(store, key, ArrayItem(kept))
    ELSE store

Removed(before, after, key) ==
    Cardinality(before[key].items) - Cardinality(after[key].items)

\* JSON.parse(stored) throws
ParseError(item) == item.kind \in {"corrupt", "text"}

cleanupStaleData ==
    LET s1 == SweepCategory(localStorage, "bookings",
                            KeptBookings(localStorage["bookings"].items))
        s2 == SweepCategory(s1, "bookingHistory",
                            KeptHistory(s1["bookingHistory"].items))
        s3 == SweepCategory(s2, "bookingSecurityLogs",
                            KeptLogs(s2["bookingSecurityLogs"].items))
        s4 == SweepCategory(s3, "actionLocks", KeptLocks(s3["actionLocks"].items))
    IN  /\ localStorage' = s4
        /\ smResult' = [NoResult EXCEPT
                           !.op = "cleanupStaleData",
                           !.before = localStorage["bookings"].items,
                           !.sweep = [archived |-> Removed(localStorage, s1, "bookings"),
                                      bookingsError |->
                                          ParseError(localStorage["bookings"]),
                                      history |-> Removed(s1, s2, "bookingHistory"),
                                      logs |-> Removed(s2, s3, "bookingSecurityLogs"),
                                      locks |-> Removed(s3, s4, "actionLocks")]]
        /\ UNCHANGED <<writeQueue, writeTimeout, timers, nextTimer, dateNow,
                       gatewayVars, directoryVars, uiVars>>

\* setInterval(() => this.cleanupStaleData(), 24 * 60 * 60 * 1000): the next
\* sweep comes a day later.
DayPasses ==
    /\ dateNow < Epoch + MaxDays * DAY
    /\ dateNow' = dateNow + DAY
    /\ UNCHANGED <<localStorage, writeQueue, writeTimeout, timers, nextTimer,
                   smResult, gatewayVars, directoryVars, uiVars>>

\* Time passes; a due timer may fire late.
StorageTick ==
    /\ dateNow < Epoch + MaxStorageTicks * StorageStep
    /\ dateNow' = dateNow + StorageStep
    /\ UNCHANGED <<localStorage, writeQueue, writeTimeout, timers, nextTimer,
                   smResult, gatewayVars, directoryVars, uiVars>>


\* The storage manager when the page has loaded.
StorageManagerIdle ==
    /\ writeQueue = <<>>
    /\ writeTimeout = 0
    /\ timers = {}
    /\ nextTimer = 1
    /\ dateNow = Epoch
    /\ smResult = NoResult

\* The storage manager left alone, over an empty store.
StorageIdle ==
    /\ localStorage = [k \in StorageKeys |-> AbsentItem]
    /\ StorageManagerIdle


IdleCall == [pc |-> "idle", snap |-> {}, err |-> NoErr, asOf |-> 0,
             result |-> {}, path |-> "none", minVer |-> 0]
IdleWrite == [pc |-> "idle", kind |-> "none", arg |-> NoBooking, list |-> {},
              err |-> NoErr, ver |-> 0, events |-> 0, outcome |-> "none",
              ret |-> NoBooking, issued |-> {}, childErr |-> NoErr]
NoListener == [on |-> FALSE, seen |-> -1, cbArg |-> {}, cbSaw |-> Null]

Init ==
    /\ remote \in {{}, {B1}}
    /\ rver = 0
    /\ bookingsCache = Null
    /\ cacheAsOf = 0
    /\ bookingsCacheTime = 0
    /\ bookingsPermissionDenied = FALSE
    /\ firebaseWriteDenied = FALSE
    /\ localBookings \in {Null, JSONstringify(remote)}
    /\ localAsOf = 0
    /\ dbAvailable \in BOOLEAN
    /\ now = BOOKINGS_CACHE_DURATION
    /\ calls = [c \in Calls |-> IdleCall]
    /\ writes = [w \in Writes |-> IdleWrite]
    /\ updatedVer = 0
    /\ StorageIdle
    /\ DirectoryIdle
    /\ UiIdle
    /\ listener = NoListener
    /\ lastReadError = NoErr
    /\ subs = [s \in Subs |-> IdleSub]
    /\ nextId = 1

\* ------------------------------------------------------------- getBookings

\* bookingsCache && bookingsCache.length > 0 && (Date.now() - bookingsCacheTime) < BOOKINGS_CACHE_DURATION
CacheFresh ==
    /\ ~bookingsCache.null
    /\ bookingsCache.list # {}
    /\ (now - bookingsCacheTime) < BOOKINGS_CACHE_DURATION

\* error.message && error.message.includes('Permission denied')
IsReadPermissionDenied_Never(err) == FALSE
IsReadPermissionDenied_Always(err) == TRUE
IsReadPermissionDenied(err) == IncludesPermissionDenied(err.message)

\* The catch block's fallback: memory cache even if expired, then localStorage, then [].
FallbackResult_LocalFirst(cache, item) ==
    IF ~item.null THEN [list |-> ParseLocal(item), path |-> "fallbackLocal"]
    ELSE IF ~cache.null /\ cache.list # {}
    THEN [list |-> cache.list, path |-> "fallbackCache"]
    ELSE [list |-> {}, path |-> "fallbackLocal"]
FallbackResult(cache, item) ==
    IF ~cache.null /\ cache.list # {}
    THEN [list |-> cache.list, path |-> "fallbackCache"]
    ELSE [list |-> ParseLocal(item), path |-> "fallbackLocal"]

Returned(c, list, path, asOf) ==
    [calls[c] EXCEPT !.pc = "returned", !.result = list, !.path = path,
                     !.asOf = asOf, !.snap = {}, !.err = NoErr]

\* getBookings up to its await: the latch, the fresh cache, the missing database.
GetBookingsStart(c) ==
    /\ calls[c].pc \in {"idle", "returned"}
    /\ LET call == [IdleCall EXCEPT !.minVer = updatedVer]
           ret(list, path, asOf) ==
               [call EXCEPT !.pc = "returned", !.result = list, !.path = path,
                            !.asOf = asOf]
       IN calls' = [calls EXCEPT ![c] =
             IF bookingsPermissionDenied
             THEN ret(ParseLocal(localBookings), "latched",
                      IF localBookings.null THEN rver ELSE localAsOf)
             ELSE IF CacheFresh
             THEN ret(bookingsCache.list, "cache", cacheAsOf)
             ELSE IF ~dbAvailable
             THEN ret(ParseLocal(localBookings), "nodb",
                      IF localBookings.null THEN rver ELSE localAsOf)
             ELSE [call EXCEPT !.pc = "awaiting"]]
    /\ lastReadError' = IF calls'[c].pc = "returned" THEN NoErr ELSE lastReadError
    /\ UNCHANGED <<remote, rver, gatewayCache, bookingsPermissionDenied,
                   firebaseWriteDenied, localCopy, dbAvailable, storageVars, directoryVars, uiVars, now, writes,
                   updatedVer, listener, subVars>>

\* The backing store answers get(ref(db, 'bookings')): a snapshot or an error.
RemoteServeRead(c) ==
    /\ calls[c].pc = "awaiting"
    /\ \/ calls' = [calls EXCEPT ![c] = [@ EXCEPT !.pc = "served",
                        !.snap = SnapshotList(remote), !.asOf = rver]]
       \/ \E e \in RemoteErrors :
            calls' = [calls EXCEPT ![c] = [@ EXCEPT !.pc = "served", !.err = e]]
    /\ UNCHANGED lastReadError
    /\ UNCHANGED <<remote, rver, gatewayCache, bookingsPermissionDenied,
                   firebaseWriteDenied, localCopy, dbAvailable, storageVars, directoryVars, uiVars, now, writes,
                   updatedVer, listener, subVars>>

\* getBookings after its await, on a snapshot: lines 298-320.
GetBookingsResumeOk(c) ==
    /\ calls[c].pc = "served"
    /\ calls[c].err = NoErr
    /\ IF calls[c].snap # {}
       THEN /\ bookingsCache' = Some(calls[c].snap)
            /\ cacheAsOf' = calls[c].asOf
            /\ bookingsCacheTime' = now
            \* localStorage.setItem may throw on quota: the copy is left as it was
            /\ \/ /\ localBookings' = JSONstringify(calls[c].snap)
                  /\ localAsOf' = calls[c].asOf
               \/ UNCHANGED localCopy
            /\ calls' = [calls EXCEPT ![c] =
                            Returned(c, calls[c].snap, "remote", calls[c].asOf)]
       ELSE /\ UNCHANGED <<gatewayCache, localCopy>>
            /\ calls' = [calls EXCEPT ![c] = Returned(c, {}, "empty", calls[c].asOf)]
    /\ lastReadError' = NoErr
    /\ UNCHANGED <<remote, rver, bookingsPermissionDenied, firebaseWriteDenied,
                   dbAvailable, storageVars, directoryVars, uiVars, now, writes, updatedVer, listener, subVars>>

\* getBookings after its await, on an error: the catch block, lines 321-343.
GetBookingsResumeErr(c) ==
    /\ calls[c].pc = "served"
    /\ calls[c].err # NoErr
    /\ bookingsPermissionDenied' =
          (bookingsPermissionDenied \/ IsReadPermissionDenied(calls[c].err))
    /\ lastReadError' = calls[c].err
    /\ LET fb == FallbackResult(bookingsCache, localBookings)
       IN calls' = [calls EXCEPT ![c] =
             [@ EXCEPT !.pc = "returned", !.result = fb.list, !.path = fb.path,
                       !.err = NoErr,
                       !.asOf = IF fb.path = "fallbackCache" THEN cacheAsOf
                                ELSE IF localBookings.null THEN rver ELSE localAsOf]]
    /\ UNCHANGED <<remote, rver, gatewayCache, firebaseWriteDenied, localCopy,
                   dbAvailable, storageVars, directoryVars, uiVars, now, writes, updatedVer, listener, subVars>>

\* ------------------------------------------------- gateway booking writes

\* err.code === 'PERMISSION_DENIED' || err.message.toLowerCase().includes('permission')
IsWritePermissionDenied(err) ==
    err.code = "PERMISSION_DENIED" \/ LowerIncludesPermission(err.message)

\* isNaN(totalPrice) -> booking.cost?.subtotal || 0 (the model's bookings carry no cost)
Sanitize(b) == IF b.totalPrice = NaN THEN [b EXCEPT !.totalPrice = 0] ELSE b

\* What a caller passes to updateBooking: a booking it read, with a field changed.
UpdateInputs ==
    UNION { { [r EXCEPT !.status = st, !.totalPrice = tp] :
                st \in UpdateStatuses \ {r.status}, tp \in {r.totalPrice, NaN} } :
            r \in remote }
    \cup { [B1 EXCEPT !.id = NoId] }

\* What a caller passes to createBooking: a booking with an id of its own.
CreateInputs == {B1, B2} \ remote

\* The 'booking:created' events createBooking has dispatched when it leaves
\* through its outer catch: line 435.
EventsAfterCatch_Silent(events) == events
EventsAfterCatch(events) == events + 1

WriteRaised(w, kind, b, err, events) ==
    [IdleWrite EXCEPT !.pc = "returned", !.kind = kind, !.arg = b, !.err = err,
                      !.events = events, !.outcome = "raised"]

\* createBooking up to await set(...): lines 409-415 (and 432-436 without a database).
CreateBookingStart(w, b) ==
    /\ writes[w].pc \in {"idle", "returned"}
    /\ writes' = [writes EXCEPT ![w] =
          IF ~dbAvailable
          THEN WriteRaised(w, "create", b, NoDbErr, EventsAfterCatch(0))
          ELSE [IdleWrite EXCEPT !.pc = "awaiting", !.kind = "create", !.arg = b]]
    /\ UNCHANGED <<remote, rver, gatewayCache, bookingsPermissionDenied,
                   firebaseWriteDenied, localCopy, dbAvailable, storageVars, directoryVars, uiVars, now, callVars,
                   updatedVer, listener, subVars>>

\* updateBooking up to await set(...): lines 441-465.
UpdateBookingStart(w, b) ==
    /\ writes[w].pc \in {"idle", "returned"}
    /\ writes' = [writes EXCEPT ![w] =
          IF ~dbAvailable
          THEN WriteRaised(w, "update", b, NoDbErr, 0)
          ELSE IF b.id = NoId
          THEN WriteRaised(w, "update", b,
                           [code |-> "", message |-> "Invalid booking: missing id"], 0)
          ELSE [IdleWrite EXCEPT !.pc = "awaiting", !.kind = "update",
                                 !.arg = Sanitize(b)]]
    /\ UNCHANGED <<remote, rver, gatewayCache, bookingsPermissionDenied,
                   firebaseWriteDenied, localCopy, dbAvailable, storageVars, directoryVars, uiVars, now, callVars,
                   updatedVer, listener, subVars>>

\* The backing store answers set(ref(db, 'bookings/' + id), booking).
RemoteServeWrite(w) ==
    /\ writes[w].pc = "awaiting"
    /\ writes[w].kind \in {"create", "update"}
    /\ \/ /\ rver < MaxVer
          /\ remote' = Put(remote, writes[w].arg)
          /\ rver' = rver + 1
          /\ writes' = [writes EXCEPT ![w] = [@ EXCEPT !.pc = "served", !.ver = rver + 1]]
       \/ /\ \E e \in RemoteErrors :
               writes' = [writes EXCEPT ![w] = [@ EXCEPT !.pc = "served", !.err = e]]
          /\ UNCHANGED <<remote, rver>>
    /\ UNCHANGED <<gatewayCache, bookingsPermissionDenied, firebaseWriteDenied,
                   localCopy, dbAvailable, storageVars, directoryVars, uiVars, now, callVars, updatedVer, listener,
                   subVars>>

\* createBooking after its await: lines 416-437.  The cache is left as it is.
CreateBookingResume(w) ==
    /\ writes[w].pc = "served"
    /\ writes[w].kind = "create"
    /\ IF writes[w].err = NoErr
       THEN /\ writes' = [writes EXCEPT ![w] =
                   [@ EXCEPT !.pc = "returned", !.events = @ + 1, !.outcome = "ok",
                             !.ret = writes[w].arg]]
            /\ UNCHANGED firebaseWriteDenied
       ELSE /\ firebaseWriteDenied' =
                   (firebaseWriteDenied \/ IsWritePermissionDenied(writes[w].err))
            /\ writes' = [writes EXCEPT ![w] =
                   [@ EXCEPT !.pc = "returned",
                             !.events = EventsAfterCatch(writes[w].events),
                             !.outcome = "raised"]]
    /\ UNCHANGED <<remote, rver, gatewayCache, bookingsPermissionDenied,
                   localCopy, dbAvailable, storageVars, directoryVars, uiVars, now, callVars, updatedVer, listener,
                   subVars>>

\* updateBooking after its await: lines 467-486.
UpdateBookingResume(w) ==
    /\ writes[w].pc = "served"
    /\ writes[w].kind = "update"
    /\ IF writes[w].err = NoErr
       THEN /\ bookingsCache' = Null
            /\ bookingsCacheTime' = 0
            /\ cacheAsOf' = 0
            /\ updatedVer' = IF writes[w].ver > updatedVer THEN writes[w].ver
                             ELSE updatedVer
            /\ writes' = [writes EXCEPT ![w] =
                   [@ EXCEPT !.pc = "returned", !.events = @ + 1, !.outcome = "ok",
                             !.ret = writes[w].arg]]
            /\ UNCHANGED firebaseWriteDenied
       ELSE /\ firebaseWriteDenied' =
                   (firebaseWriteDenied \/ IsWritePermissionDenied(writes[w].err))
            /\ writes' = [writes EXCEPT ![w] =
                   [@ EXCEPT !.pc = "returned", !.outcome = "raised"]]
            /\ UNCHANGED <<gatewayCache, updatedVer>>
    /\ UNCHANGED <<remote, rver, bookingsPermissionDenied, localCopy,
                   dbAvailable, storageVars, directoryVars, uiVars, now, callVars, listener, subVars>>

\* What a caller passes to saveBookings: the list it read, with one booking
\* changed (customer.js: getBookings, all[idx] = booking, saveBookings(all)).
SaveInputs ==
    {Put(SnapshotList(remote), b) : b \in {u \in UpdateInputs : u.id # NoId}}
    \cup {{b} : b \in {u \in UpdateInputs : u.id # NoId}}

\* Object.keys(bookingsObj).map(id => set(childRef, bookingsObj[id])): the child
\* writes that are issued before the first await.
ChildWritesIssued_FirstOnly(list) ==
    {b.id : b \in {x \in list : \A o \in list : x.id <= o.id}}
ChildWritesIssued(list) == {b.id : b \in list}

\* localStorage 'bookings' after saveBookings has failed: line 404.
LocalAfterSaveFailure_Persist(item, list) == JSONstringify(list)
LocalAfterSaveFailure(item, list) == item

\* saveBookings up to await Promise.all(writePromises): lines 346-375.
SaveBookingsStart(w, list) ==
    /\ writes[w].pc \in {"idle", "returned"}
    /\ writes' = [writes EXCEPT ![w] =
          IF ~dbAvailable
          THEN [WriteRaised(w, "save", NoBooking, NoDbErr, 0) EXCEPT !.list = list]
          ELSE [IdleWrite EXCEPT !.pc = "awaiting", !.kind = "save",
                                 !.list = {Sanitize(b) : b \in list},
                                 !.issued = ChildWritesIssued(list)]]
    /\ localBookings' = IF ~dbAvailable THEN LocalAfterSaveFailure(localBookings, list)
                        ELSE localBookings
    /\ UNCHANGED <<remote, rver, gatewayCache, bookingsPermissionDenied,
                   firebaseWriteDenied, localAsOf, dbAvailable, storageVars, directoryVars, uiVars, now, callVars,
                   updatedVer, listener, subVars>>

\* The backing store answers the per-child sets: each is applied or rejected on
\* its own, and Promise.all rejects when one of them is.
RemoteServeChildren(w) ==
    /\ writes[w].pc = "awaiting"
    /\ writes[w].kind = "save"
    /\ rver < MaxVer
    /\ \E applied \in SUBSET {b \in writes[w].list : b.id \in writes[w].issued} :
          /\ remote' = {r \in remote : \A b \in applied : b.id # r.id} \cup applied
          /\ rver' = IF applied = {} THEN rver ELSE rver + 1
          /\ IF {b.id : b \in applied} = writes[w].issued
             THEN writes' = [writes EXCEPT ![w] =
                                [@ EXCEPT !.pc = "served", !.ver = rver']]
             ELSE \E e \in RemoteErrors :
                     writes' = [writes EXCEPT ![w] =
                                   [@ EXCEPT !.pc = "served", !.err = e]]
    /\ UNCHANGED <<gatewayCache, bookingsPermissionDenied, firebaseWriteDenied,
                   localCopy, dbAvailable, storageVars, directoryVars, uiVars, now, callVars, updatedVer, listener,
                   subVars>>

\* saveBookings after Promise.all: lines 376-385.  All children written: the
\* cache is invalidated.  One rejected: the root set is issued.
SaveBookingsResume(w) ==
    /\ writes[w].pc = "served"
    /\ writes[w].kind = "save"
    /\ IF writes[w].err = NoErr
       THEN /\ bookingsCache' = Null
            /\ bookingsCacheTime' = 0
            /\ cacheAsOf' = 0
            /\ writes' = [writes EXCEPT ![w] =
                   [@ EXCEPT !.pc = "returned", !.outcome = "ok"]]
       ELSE /\ writes' = [writes EXCEPT ![w] =
                   [@ EXCEPT !.pc = "awaitingRoot", !.err = NoErr,
                             !.childErr = writes[w].err]]
            /\ UNCHANGED gatewayCache
    /\ UNCHANGED <<remote, rver, bookingsPermissionDenied, firebaseWriteDenied,
                   localCopy, dbAvailable, storageVars, directoryVars, uiVars, now, callVars, updatedVer, listener,
                   subVars>>

\* The backing store answers set(ref(db, 'bookings'), bookingsObj): the whole
\* collection is replaced by the list.
RemoteServeRootSet(w) ==
    /\ writes[w].pc = "awaitingRoot"
    /\ \/ /\ rver < MaxVer
          /\ remote' = writes[w].list
          /\ rver' = rver + 1
          /\ writes' = [writes EXCEPT ![w] =
                 [@ EXCEPT !.pc = "servedRoot", !.ver = rver + 1]]
       \/ /\ \E e \in RemoteErrors :
               writes' = [writes EXCEPT ![w] =
                  [@ EXCEPT !.pc = "servedRoot", !.err = e]]
          /\ UNCHANGED <<remote, rver>>
    /\ UNCHANGED <<gatewayCache, bookingsPermissionDenied, firebaseWriteDenied,
                   localCopy, dbAvailable, storageVars, directoryVars, uiVars, now, callVars, updatedVer, listener,
                   subVars>>

\* saveBookings after the root set: lines 385-406.
SaveBookingsRootResume(w) ==
    /\ writes[w].pc = "servedRoot"
    /\ IF writes[w].err = NoErr
       THEN /\ bookingsCache' = Null
            /\ bookingsCacheTime' = 0
            /\ cacheAsOf' = 0
            /\ writes' = [writes EXCEPT ![w] =
                   [@ EXCEPT !.pc = "returned", !.outcome = "ok"]]
            /\ UNCHANGED firebaseWriteDenied
       ELSE /\ firebaseWriteDenied' =
                   (firebaseWriteDenied \/ IsWritePermissionDenied(writes[w].err))
            /\ writes' = [writes EXCEPT ![w] =
                   [@ EXCEPT !.pc = "returned", !.outcome = "raised"]]
            /\ UNCHANGED gatewayCache
    /\ localBookings' = IF writes[w].err = NoErr THEN localBookings
                        ELSE LocalAfterSaveFailure(localBookings, writes[w].list)
    /\ UNCHANGED <<remote, rver, bookingsPermissionDenied, localAsOf,
                   dbAvailable, storageVars, directoryVars, uiVars, now, callVars, updatedVer, listener, subVars>>

\* ---------------------------------------------------- bookings subscription

\* updateBookingsCache(bookings): lines 259-274; on quota the persisted copy is removed.
UpdateBookingsCache(list, asOf, quotaExceeded) ==
    /\ bookingsCache' = Some(list)
    /\ cacheAsOf' = asOf
    /\ bookingsCacheTime' = now
    /\ IF quotaExceeded
       THEN localBookings' = Null /\ localAsOf' = 0
       ELSE localBookings' = JSONstringify(list) /\ localAsOf' = asOf

\* setupBookingsListener(callback): lines 814-858.
SetupBookingsListener ==
    /\ ~listener.on
    /\ dbAvailable
    /\ listener' = [NoListener EXCEPT !.on = TRUE]
    /\ UNCHANGED <<remote, rver, gatewayCache, bookingsPermissionDenied,
                   firebaseWriteDenied, localCopy, dbAvailable, storageVars, directoryVars, uiVars, now, callVars,
                   writes, updatedVer, subVars>>

\* The bookingsCache that callback(bookingsArray) finds: updateBookingsCache has
\* run before it (lines 835 and 838, 843 and 845).
CacheAtCallback_BeforeUpdate(before, after) == before
CacheAtCallback(before, after) == after

\* The onValue callback: the first snapshot and then one per remote change.
ListenerSnapshot ==
    /\ listener.on
    /\ listener.seen # rver
    /\ \E quota \in BOOLEAN : UpdateBookingsCache(SnapshotList(remote), rver, quota)
    /\ listener' = [listener EXCEPT !.seen = rver, !.cbArg = SnapshotList(remote),
                                    !.cbSaw = CacheAtCallback(bookingsCache,
                                                              bookingsCache')]
    /\ UNCHANGED <<remote, rver, bookingsPermissionDenied, firebaseWriteDenied,
                   dbAvailable, storageVars, directoryVars, uiVars, now, callVars, writes, updatedVer, subVars>>

\* removeListener(unsubscribe): lines 863-868.
RemoveListener ==
    /\ listener.on
    /\ listener' = [listener EXCEPT !.on = FALSE]
    /\ UNCHANGED <<remote, rver, gatewayCache, bookingsPermissionDenied,
                   firebaseWriteDenied, localCopy, dbAvailable, storageVars, directoryVars, uiVars, now, callVars,
                   writes, updatedVer, subVars>>

\* Another client (the admin, a groomer) changes the status of a booking.
ExternalWrite ==
    /\ rver < MaxVer
    /\ \E r \in remote : \E st \in UpdateStatuses \ {r.status} :
          remote' = Put(remote, [r EXCEPT !.status = st])
    /\ rver' = rver + 1
    /\ UNCHANGED <<gatewayCache, bookingsPermissionDenied, firebaseWriteDenied,
                   localCopy, dbAvailable, storageVars, directoryVars, uiVars, now, callVars, writes, updatedVer,
                   listener, subVars>>

\* Time passes.
Tick ==
    /\ now < BOOKINGS_CACHE_DURATION + MaxTicks * ClockStep
    /\ now' = now + ClockStep
    /\ UNCHANGED <<remote, rver, gatewayCache, bookingsPermissionDenied,
                   firebaseWriteDenied, localCopy, dbAvailable, storageVars, directoryVars, uiVars, callVars, writes,
                   updatedVer, listener, subVars>>

\* -------------------------------------------------------- booking submission

Slot(user, pet, date, time) ==
    [userId |-> user, petName |-> pet, date |-> date, time |-> time]

\* What the customers of the session try to book: the slot of B1 and the slots
\* that differ from it in one field.
Candidates ==
    {Slot("u1", "Max", "2025-06-01", "10:00 AM"),
     Slot("u1", "Max", "2025-06-08", "10:00 AM"),
     Slot("u1", "Max", "2025-06-01", "2:00 PM"),
     Slot("u1", "Bella", "2025-06-01", "10:00 AM"),
     Slot("u2", "Max", "2025-06-01", "10:00 AM")}

CancelledStatuses == {"cancelledByCustomer", "cancelledByAdmin", "cancelledBySystem"}

\* Same pet + same date + same time.
SameSlot_TimeMismatch(a, b) ==
    a.petName = b.petName /\ a.date = b.date /\ a.time # b.time
SameSlot_IgnoresDate(a, b) ==
    a.petName = b.petName /\ a.time = b.time
SameSlot(a, b) ==
    a.petName = b.petName /\ a.date = b.date /\ a.time = b.time

\* isDuplicate: an active booking of the acting user holds the slot.
IsDuplicate(known, cand) ==
    \E r \in known :
       /\ r.userId = cand.userId
       /\ SameSlot(r, cand)
       /\ r.status \notin CancelledStatuses

NewBooking(id, cand, server) ==
    [Booking(id, cand.userId, cand.petName, cand.date, cand.time, "pending")
        EXCEPT !.serverGenerated = server, !.createdAt = now]

\* submitBooking up to the read of the known bookings: the booking object is
\* built (its id with it), the page shows its loader and holds its lock token.
SubmitBookingStart(s, cand) ==
    /\ subs[s].pc = "idle"
    /\ nextId' = nextId + 1
    /\ subs' = [subs EXCEPT ![s] =
          [IdleSub EXCEPT !.pc = "checking", !.cand = cand,
                          !.known = SnapshotList(remote),
                          !.booking = NewBooking(nextId + 1, cand, FALSE),
                          !.isSubmittingBooking = TRUE, !.loading = TRUE,
                          !.token = "pending"]]
    /\ UNCHANGED <<remote, rver, gatewayCache, bookingsPermissionDenied,
                   firebaseWriteDenied, localCopy, dbAvailable, storageVars, directoryVars, uiVars, now, callVars,
                   writes, updatedVer, listener>>

\* if (isDuplicate) { completeSubmissionFailed; hideLoadingOverlay; await alert
SubmitBlocked(s) ==
    /\ subs[s].pc = "checking"
    /\ IsDuplicate(subs[s].known, subs[s].cand)
    /\ subs' = [subs EXCEPT ![s].pc = "alert", ![s].token = "failed",
                            ![s].loading = FALSE]
    /\ UNCHANGED <<remote, rver, gatewayCache, bookingsPermissionDenied,
                   firebaseWriteDenied, localCopy, dbAvailable, storageVars, directoryVars, uiVars, now, callVars,
                   writes, updatedVer, listener, nextId>>

\* isSubmittingBooking = false, once the warning has been dismissed
FlagAfterWarning_Kept(flag) == flag
FlagAfterWarning(flag) == FALSE

\* ... isSubmittingBooking = false; showStep(4); return }
SubmitBlockedDismiss(s) ==
    /\ subs[s].pc = "alert"
    /\ subs' = [subs EXCEPT ![s].pc = "done", ![s].outcome = "blocked",
                            ![s].isSubmittingBooking =
                                FlagAfterWarning(subs[s].isSubmittingBooking),
                            ![s].step = 4]
    /\ UNCHANGED <<remote, rver, gatewayCache, bookingsPermissionDenied,
                   firebaseWriteDenied, localCopy, dbAvailable, storageVars, directoryVars, uiVars, now, callVars,
                   writes, updatedVer, listener, nextId>>

\* No duplicate among the known bookings: the submission goes on to create the
\* booking, through the gateway's createBooking or through createBookingSecure.
SubmitAllowed(s, via) ==
    /\ subs[s].pc = "checking"
    /\ ~IsDuplicate(subs[s].known, subs[s].cand)
    /\ dbAvailable
    /\ subs' = [subs EXCEPT ![s].pc = "creating", ![s].via = via]
    /\ UNCHANGED <<remote, rver, gatewayCache, bookingsPermissionDenied,
                   firebaseWriteDenied, localCopy, dbAvailable, storageVars, directoryVars, uiVars, now, callVars,
                   writes, updatedVer, listener, nextId>>

\* The backing store serves set(ref(db, 'bookings/' + booking.id), booking).
SubmitServeSet(s) ==
    /\ subs[s].pc = "creating"
    /\ subs[s].via = "gateway"
    /\ \/ /\ remote' = Put(remote, subs[s].booking)
          /\ rver' = rver + 1
          /\ subs' = [subs EXCEPT ![s].pc = "resuming", ![s].committed = TRUE]
       \/ /\ \E e \in {PermErr, NetErr} :
                subs' = [subs EXCEPT ![s].pc = "resuming", ![s].err = e]
          /\ UNCHANGED <<remote, rver>>
    /\ UNCHANGED <<gatewayCache, bookingsPermissionDenied, firebaseWriteDenied,
                   localCopy, dbAvailable, storageVars, directoryVars, uiVars, now, callVars, writes, updatedVer,
                   listener, nextId>>

\* createBooking after its await: returns the booking, or marks the page
\* write-denied on a permission error and rethrows; submitBooking ends.
SubmitCreateResume(s) ==
    /\ subs[s].pc = "resuming"
    /\ subs[s].via = "gateway"
    /\ subs' = [subs EXCEPT ![s] =
          IF subs[s].err = NoErr
          THEN [@ EXCEPT !.pc = "done", !.outcome = "created", !.result = subs[s].booking,
                         !.token = "completed", !.loading = FALSE,
                         !.isSubmittingBooking = FALSE, !.step = 6]
          ELSE [@ EXCEPT !.pc = "done", !.outcome = "failed", !.token = "failed",
                         !.loading = FALSE, !.isSubmittingBooking = FALSE,
                         !.writeDenied = IsWritePermissionDenied(subs[s].err)]]
    /\ UNCHANGED <<remote, rver, gatewayCache, bookingsPermissionDenied,
                   firebaseWriteDenied, localCopy, dbAvailable, storageVars, directoryVars, uiVars, now, callVars,
                   writes, updatedVer, listener, nextId>>

\* The backing store runs the transaction of createBookingSecure. Its update
\* function re-checks the slot against the data it is handed and aborts on a
\* conflict; the store may run it again after its write went through, and the
\* second run then sees that write and aborts.
SubmitServeTransaction(s) ==
    /\ subs[s].pc = "creating"
    /\ subs[s].via = "secure"
    /\ LET rec == NewBooking(subs[s].booking.id, subs[s].cand, TRUE)
           conflict == IsDuplicate(SnapshotList(remote), subs[s].cand)
       IN  \/ /\ ~conflict
              /\ remote' = Put(remote, rec)
              /\ rver' = rver + 1
              /\ \E committed \in BOOLEAN :
                    subs' = [subs EXCEPT ![s].pc = "resuming", ![s].booking = rec,
                                         ![s].committed = committed,
                                         ![s].snapshot = Some(remote')]
           \/ /\ subs' = [subs EXCEPT ![s].pc = "resuming", ![s].booking = rec,
                                      ![s].committed = FALSE,
                                      ![s].snapshot =
                                         IF remote = {} THEN Null
                                         ELSE Some(SnapshotList(remote))]
              /\ UNCHANGED <<remote, rver>>
    /\ UNCHANGED <<gatewayCache, bookingsPermissionDenied, firebaseWriteDenied,
                   localCopy, dbAvailable, storageVars, directoryVars, uiVars, now, callVars, writes, updatedVer,
                   listener, nextId>>

\* Object.values(bookings).find(b => ...): the bookings of the snapshot that
\* the search of the not-committed branch accepts.
RecentBookings_AnyOrigin(snapshot, cand) ==
    {b \in snapshot.list :
        /\ b.userId = cand.userId
        /\ b.date = cand.date
        /\ b.time = cand.time
        /\ b.petName = cand.petName
        /\ (now - b.createdAt) < GRACE_WINDOW}
RecentBookings_None(snapshot, cand) == {}
RecentBookings(snapshot, cand) ==
    {b \in snapshot.list :
        /\ b.userId = cand.userId
        /\ b.date = cand.date
        /\ b.time = cand.time
        /\ b.petName = cand.petName
        /\ b.serverGenerated = TRUE
        /\ (now - b.createdAt) < GRACE_WINDOW}

\* find() returns the first match in key order.
FirstOf(found) == CHOOSE b \in found : \A o \in found : b.id <= o.id

\* createBookingSecure after runTransaction.
SubmitSecureResume(s) ==
    /\ subs[s].pc = "resuming"
    /\ subs[s].via = "secure"
    /\ LET found == IF subs[s].snapshot.null THEN {}
                    ELSE RecentBookings(subs[s].snapshot, subs[s].cand)
           done(b) == [subs[s] EXCEPT !.pc = "done", !.outcome = "created",
                          !.result = b, !.token = "completed", !.loading = FALSE,
                          !.isSubmittingBooking = FALSE, !.step = 6]
       IN  subs' = [subs EXCEPT ![s] =
              IF subs[s].committed THEN done(subs[s].booking)
              ELSE IF found # {} THEN done(FirstOf(found))
              ELSE [@ EXCEPT !.pc = "done", !.outcome = "failed",
                             !.err = DuplicateErr, !.token = "failed",
                             !.loading = FALSE, !.isSubmittingBooking = FALSE]]
    /\ UNCHANGED <<remote, rver, gatewayCache, bookingsPermissionDenied,
                   firebaseWriteDenied, localCopy, dbAvailable, storageVars, directoryVars, uiVars, now, callVars,
                   writes, updatedVer, listener, nextId>>

\* Time passes while submissions run.
TickGrace ==
    /\ now < BOOKINGS_CACHE_DURATION + MaxGraceTicks * GraceStep
    /\ now' = now + GraceStep
    /\ UNCHANGED <<remote, rver, gatewayCache, bookingsPermissionDenied,
                   firebaseWriteDenied, localCopy, dbAvailable, storageVars, directoryVars, uiVars, callVars, writes,
                   updatedVer, listener, subVars>>

\* ----------------------------------------------------------- specifications

\* The read side of the gateway: getBookings, the subscription, the clock.
Next ==
    \/ \E c \in Calls : GetBookingsStart(c)
    \/ \E c \in Calls : RemoteServeRead(c)
    \/ \E c \in Calls : GetBookingsResumeOk(c)
    \/ \E c \in Calls : GetBookingsResumeErr(c)
    \/ SetupBookingsListener
    \/ ListenerSnapshot
    \/ RemoveListener
    \/ ExternalWrite
    \/ Tick

Spec == Init /\ [][Next]_vars

\* The gateway's single-booking writes against one reader.
InitWrites ==
    /\ remote = {B1}
    /\ rver = 0
    /\ bookingsCache = Null
    /\ cacheAsOf = 0
    /\ bookingsCacheTime = 0
    /\ bookingsPermissionDenied = FALSE
    /\ firebaseWriteDenied = FALSE
    /\ localBookings \in {Null, JSONstringify(remote)}
    /\ localAsOf = 0
    /\ dbAvailable \in BOOLEAN
    /\ now = BOOKINGS_CACHE_DURATION
    /\ calls = [c \in Calls |-> IdleCall]
    /\ writes = [w \in Writes |-> IdleWrite]
    /\ updatedVer = 0
    /\ StorageIdle
    /\ DirectoryIdle
    /\ UiIdle
    /\ listener = NoListener
    /\ lastReadError = NoErr
    /\ subs = [s \in Subs |-> IdleSub]
    /\ nextId = 1

NextWrites ==
    \/ GetBookingsStart(1)
    \/ RemoteServeRead(1)
    \/ GetBookingsResumeOk(1)
    \/ GetBookingsResumeErr(1)
    \/ \E w \in Writes, b \in CreateInputs : CreateBookingStart(w, b)
    \/ \E w \in Writes, b \in UpdateInputs : UpdateBookingStart(w, b)
    \/ \E w \in Writes : RemoteServeWrite(w)
    \/ \E w \in Writes : CreateBookingResume(w)
    \/ \E w \in Writes : UpdateBookingResume(w)

SpecWrites == InitWrites /\ [][NextWrites]_vars

\* The gateway's bulk write against one reader.
InitSave ==
    /\ remote \in {{B1}, {B1, B2}}
    /\ rver = 0
    /\ bookingsCache = Null
    /\ cacheAsOf = 0
    /\ bookingsCacheTime = 0
    /\ bookingsPermissionDenied = FALSE
    /\ firebaseWriteDenied = FALSE
    /\ localBookings \in {Null, JSONstringify(remote)}
    /\ localAsOf = 0
    /\ dbAvailable \in BOOLEAN
    /\ now = BOOKINGS_CACHE_DURATION
    /\ calls = [c \in Calls |-> IdleCall]
    /\ writes = [w \in Writes |-> IdleWrite]
    /\ updatedVer = 0
    /\ StorageIdle
    /\ DirectoryIdle
    /\ UiIdle
    /\ listener = NoListener
    /\ lastReadError = NoErr
    /\ subs = [s \in Subs |-> IdleSub]
    /\ nextId = 1

NextSave ==
    \/ GetBookingsStart(1)
    \/ RemoteServeRead(1)
    \/ GetBookingsResumeOk(1)
    \/ GetBookingsResumeErr(1)
    \/ \E w \in Writes, list \in SaveInputs : SaveBookingsStart(w, list)
    \/ \E w \in Writes : RemoteServeChildren(w)
    \/ \E w \in Writes : SaveBookingsResume(w)
    \/ \E w \in Writes : RemoteServeRootSet(w)
    \/ \E w \in Writes : SaveBookingsRootResume(w)

SpecSave == InitSave /\ [][NextSave]_vars

InitSubmit ==
    /\ remote \in {{}, {B1}, {[B1 EXCEPT !.status = "cancelledByCustomer"]}}
    /\ rver = 0
    /\ bookingsCache = Null
    /\ cacheAsOf = 0
    /\ bookingsCacheTime = 0
    /\ bookingsPermissionDenied = FALSE
    /\ firebaseWriteDenied = FALSE
    /\ localBookings = Null
    /\ localAsOf = 0
    /\ dbAvailable = TRUE
    /\ now = BOOKINGS_CACHE_DURATION
    /\ calls = [c \in Calls |-> IdleCall]
    /\ writes = [w \in Writes |-> IdleWrite]
    /\ updatedVer = 0
    /\ StorageIdle
    /\ DirectoryIdle
    /\ UiIdle
    /\ listener = NoListener
    /\ lastReadError = NoErr
    /\ subs = [s \in Subs |-> IdleSub]
    /\ nextId = 1

NextSubmit ==
    \/ \E s \in Subs, cand \in Candidates : SubmitBookingStart(s, cand)
    \/ \E s \in Subs : SubmitBlocked(s)
    \/ \E s \in Subs : SubmitBlockedDismiss(s)
    \/ \E s \in Subs, via \in {"gateway", "secure"} : SubmitAllowed(s, via)
    \/ \E s \in Subs : SubmitServeSet(s)
    \/ \E s \in Subs : SubmitCreateResume(s)
    \/ \E s \in Subs : SubmitServeTransaction(s)
    \/ \E s \in Subs : SubmitSecureResume(s)
    \/ TickGrace

SpecSubmit == InitSubmit /\ [][NextSubmit]_vars

\* One page submitting on its own, the customer dismissing the warning that
\* customAlert shows.
NextOnePage ==
    \/ \E cand \in Candidates : SubmitBookingStart(1, cand)
    \/ SubmitBlocked(1)
    \/ SubmitBlockedDismiss(1)
    \/ \E via \in {"gateway", "secure"} : SubmitAllowed(1, via)
    \/ SubmitServeSet(1)
    \/ SubmitCreateResume(1)
    \/ SubmitServeTransaction(1)
    \/ SubmitSecureResume(1)
    \/ TickGrace

SpecOnePage ==
    InitSubmit /\ [][NextOnePage]_vars /\ WF_vars(SubmitBlockedDismiss(1))

\* The storage manager on its own: the gateway is not called, nobody reads
\* users or groomers.
GatewayIdle ==
    /\ remote = {}
    /\ rver = 0
    /\ bookingsCache = Null
    /\ cacheAsOf = 0
    /\ bookingsCacheTime = 0
    /\ bookingsPermissionDenied = FALSE
    /\ firebaseWriteDenied = FALSE
    /\ localBookings = Null
    /\ localAsOf = 0
    /\ dbAvailable = TRUE
    /\ now = BOOKINGS_CACHE_DURATION
    /\ calls = [c \in Calls |-> IdleCall]
    /\ writes = [w \in Writes |-> IdleWrite]
    /\ updatedVer = 0
    /\ listener = NoListener
    /\ lastReadError = NoErr
    /\ subs = [s \in Subs |-> IdleSub]
    /\ nextId = 1
    /\ DirectoryIdle

EntryPool == {Entry(1, OldTime, "", ""), Entry(2, RecentTime, "", "")}
StoredEntries == {AbsentItem, CorruptItem, ArrayItem(EntryPool)}

\* What the page finds in the store: the bookings, the history, and the logs
\* and locks with the submission status.
Stored(bookings, history, others) ==
    [k \in StorageKeys |->
        CASE k = "bookings" -> bookings
          [] k = "bookingHistory" -> history
          [] k \in {"bookingSecurityLogs", "actionLocks"} -> others
          [] k = "bookingSubmissionStatus" ->
                 IF others.kind = "array" THEN Serialize(Value("string", "s", 1))
                 ELSE AbsentItem
          [] OTHER -> AbsentItem]

\* Writes through the storage manager: batched and immediate.
WrittenBookings ==
    {AbsentItem, CorruptItem,
     ArrayItem({Entry(1, OldTime, "", "completed")}),
     ArrayItem({Entry(4, OldTime, "", "pending")})}

InitStorage ==
    /\ GatewayIdle
    /\ \E bookings \in WrittenBookings, others \in {AbsentItem, ArrayItem(EntryPool)} :
          localStorage = Stored(bookings, others, others)
    /\ TotalSize(localStorage) <= Capacity
    /\ StorageManagerIdle
    /\ UiIdle

NextStorage ==
    \/ \E key \in WriteKeys, value \in WriteValues : queueWrite(key, value)
    \/ FlushTimerFires
    \/ \E key \in WriteKeys, value \in WriteValues : writeImmediate(key, value)
    \/ StorageTick

SpecStorage == InitStorage /\ [][NextStorage]_vars

\* The periodic sweep, run on load and then once a day.
BookingPool ==
    {Entry(1, OldTime, "", "completed"), Entry(2, OldTime, "", "cancelled"),
     Entry(3, OldTime, "", "no-show"), Entry(4, OldTime, "", "pending"),
     Entry(5, RecentTime, "", "completed"), Entry(6, NoTime, "old", "completed"),
     Entry(7, NoTime, "invalid", "cancelled"), Entry(8, NoTime, "recent", "cancelled"),
     Entry(9, NearlyOldTime, "", "completed")}
StoredBookings ==
    {AbsentItem, CorruptItem, Serialize(Value("object", "o", 1))}
    \cup {ArrayItem(items) : items \in {l \in SUBSET BookingPool : Cardinality(l) \in 1..2}}

InitSweep ==
    /\ GatewayIdle
    /\ \E bookings \in StoredBookings, history \in StoredEntries,
          others \in StoredEntries :
          localStorage = Stored(bookings, history, others)
    /\ TotalSize(localStorage) <= Capacity
    /\ StorageManagerIdle
    /\ UiIdle

NextSweep ==
    \/ cleanupStaleData
    \/ DayPasses

SpecSweep == InitSweep /\ [][NextSweep]_vars

\* The cached reads of users and groomers.
InitDirectory ==
    /\ remote = {}
    /\ rver = 0
    /\ bookingsCache = Null
    /\ cacheAsOf = 0
    /\ bookingsCacheTime = 0
    /\ bookingsPermissionDenied = FALSE
    /\ firebaseWriteDenied = FALSE
    /\ localBookings = Null
    /\ localAsOf = 0
    /\ dbAvailable \in BOOLEAN
    /\ now = BOOKINGS_CACHE_DURATION
    /\ calls = [c \in Calls |-> IdleCall]
    /\ writes = [w \in Writes |-> IdleWrite]
    /\ updatedVer = 0
    /\ listener = NoListener
    /\ lastReadError = NoErr
    /\ subs = [s \in Subs |-> IdleSub]
    /\ nextId = 1
    /\ StorageIdle
    /\ usersCache = Null
    /\ usersCacheTime = 0
    /\ usersPermissionDenied = FALSE
    /\ localUsers = Some({"u0"})
    /\ remoteUsers = {"u1"}
    /\ getUsersImpl \in BOOLEAN
    /\ usersCall = IdleRead
    /\ lastUsersRead = NoRead
    /\ groomersCache = Null
    /\ groomersCacheTime = 0
    /\ groomersPermissionDenied = FALSE
    /\ localGroomers \in {Null, Some({"g0"})}
    /\ remoteGroomers \in {{}, {"g1"}}
    /\ groomersCall = IdleRead
    /\ lastGroomersRead = NoRead
    /\ UiIdle

NextDirectory ==
    \/ getUsersStart
    \/ ImplServe
    \/ getUsersImplResume
    \/ RemoteServeUsers
    \/ getUsersResume
    \/ getGroomersStart
    \/ RemoteServeGroomers
    \/ getGroomersResume
    \/ RemoteDirectoryChange
    \/ TickDirectory

SpecDirectory == InitDirectory /\ [][NextDirectory]_vars

\* The security logger on its own, over a log that earlier sessions filled.
EarlierLogs(n) == [i \in 1..n |-> LogEntry(i, 0, "warning")]

InitLogger ==
    /\ GatewayIdle
    /\ StorageIdle
    /\ \E n \in {0, MAX_LOGS - 1, MAX_LOGS} :
          /\ appended = EarlierLogs(n)
          /\ persistedLogs = IF n = 0 THEN NoLogs ELSE SomeLogs(EarlierLogs(n))
    /\ logCache = NoLogs
    /\ logCacheTime = 0
    /\ logResult = NoLogResult
    /\ PageIdle

NextLogger ==
    \/ \E level \in LogLevels : log(level)
    \/ TickLogger

SpecLogger == InitLogger /\ [][NextLogger]_vars

\* Operations run under LoadingManager.withLoader.
InitLoader ==
    /\ GatewayIdle
    /\ StorageIdle
    /\ UiIdle

NextLoader ==
    \/ \E c \in LoaderCalls, global \in BOOLEAN, timeout \in Timeouts :
          withLoaderStart(c, global, timeout)
    \/ \E c \in LoaderCalls, resolved \in BOOLEAN : withLoaderSettle(c, resolved)
    \/ GlobalTimeoutFires
    \/ TickLoader

SpecLoader == InitLoader /\ [][NextLoader]_vars

\* Customers opening the dashboard in one browser, one after the other.
InitDashboard ==
    /\ GatewayIdle
    /\ StorageIdle
    /\ UiIdle

NextDashboard ==
    \/ \E user \in DashUsers : OpenDashboard(user)
    \/ loadUserBookingsWithCacheStart
    \/ \E stored \in BOOLEAN : loadUserBookingsWithCacheResume(stored)
    \/ loadQuickStatsStart
    \/ \E threw \in BOOLEAN : loadQuickStatsResume(threw)
    \/ BookingsUpdateArrives
    \/ \E b \in DashPool : RemoteDashChange(b)
    \/ TickDash

SpecDashboard == InitDashboard /\ [][NextDashboard]_vars

\* A customer uploading and removing the proof of payment of a booking.  Every
\* request settles, every dialog is answered and every timer runs.
InitProof ==
    /\ GatewayIdle
    /\ StorageIdle
    /\ LoggerIdle
    /\ LoaderIdle
    /\ DashIdle
    /\ isProcessing = FALSE
    /\ upload = IdleUpload
    /\ uploads = 0
    /\ resetTimers = 0
    /\ isRemovingProof = FALSE
    /\ removals = [c \in Removals |-> IdleRemoval]
    /\ overlayShown = FALSE
    /\ proofOfPaymentImage \in {"none", "image"}

UploadSettles ==
    \/ readerOnload
    \/ \E threw \in BOOLEAN, found \in BOOLEAN : uploadBookingsFetched(threw, found)
    \/ \E ok \in BOOLEAN : uploadSaved(ok)
    \/ uploadAlertDismissed

RemovalSettles ==
    \/ \E c \in Removals, confirmed \in BOOLEAN : removeConfirmAnswered(c, confirmed)
    \/ \E c \in Removals, threw \in BOOLEAN, found \in BOOLEAN :
          removeBookingsFetched(c, threw, found)
    \/ \E c \in Removals, ok \in BOOLEAN : removeSaved(c, ok)

NextProof ==
    \/ \E file \in Files, canProceed \in BOOLEAN :
          handleProofOfPaymentUpload(file, canProceed)
    \/ UploadSettles
    \/ ProcessingResetFires
    \/ \E c \in Removals : removeProofOfPayment(c)
    \/ RemovalSettles

SpecProof ==
    /\ InitProof
    /\ [][NextProof]_vars
    /\ WF_vars(UploadSettles)
    /\ WF_vars(ProcessingResetFires)
    /\ WF_vars(RemovalSettles)

\* ------------------------------------------------------------------ claims

Active(r) == r.status \notin {"cancelledByCustomer", "cancelledByAdmin", "cancelledBySystem"}

\* Booking r holds, for the same customer, the slot that cand asks for.
HoldsSlotOf(r, cand) ==
    /\ r.userId = cand.userId
    /\ r.petName = cand.petName
    /\ r.date = cand.date
    /\ r.time = cand.time

\* A step in which submission s leaves its duplicate check.
ClassifyStep(s) == subs[s].pc = "checking" /\ subs'[s].pc # "checking"

\* A step in which the backing store applies a write of submission s.
SubmitWriteStep(s) ==
    /\ subs[s].pc = "creating"
    /\ subs'[s].pc = "resuming"
    /\ remote' # remote

\* A step in which createBookingSecure of submission s runs on from a
\* transaction that reported not committed.
NotCommittedStep(s) ==
    /\ subs[s].pc = "resuming"
    /\ subs[s].via = "secure"
    /\ ~subs[s].committed
    /\ subs'[s].pc = "done"

\* The records of the transaction's snapshot that match all of: same userId,
\* date, time and petName, serverGenerated, created less than 10 s ago.
Matching(s) ==
    {b \in subs[s].snapshot.list :
        /\ HoldsSlotOf(b, subs[s].cand)
        /\ b.serverGenerated
        /\ now - b.createdAt < GRACE_WINDOW}

\* C1: in every reachable state of the remote bookings collection, whatever the
\* interleaving of submissions, at most one non-cancelled booking exists for a
\* (user, petName, date, time).
C1_AtMostOneActive ==
    \A a \in remote : \A b \in remote :
       (Active(a) /\ Active(b) /\ HoldsSlotOf(a, b)) => a.id = b.id

C4_ReconciledReturn ==
    [][\A s \in Subs :
          (NotCommittedStep(s) /\ Matching(s) # {})
          => /\ subs'[s].outcome = "created"
             /\ subs'[s].result \in Matching(s)
             /\ subs'[s].err = NoErr
             /\ remote' = remote]_vars

C4_Witness ==
    \E s \in Subs :
       /\ subs[s].pc = "done"
       /\ subs[s].via = "secure"
       /\ ~subs[s].committed
       /\ subs[s].outcome = "created"
       /\ subs[s].result \in subs[s].snapshot.list
       /\ subs[s].result.serverGenerated
       /\ HoldsSlotOf(subs[s].result, subs[s].cand)

\* C5: if the transaction reports not committed and no record of its snapshot
\* matches all of (same userId, date, time, petName, serverGenerated = true,
\* createdAt within the 10 s window), the create call raises the
\* duplicate-creation error and returns no booking.
C5_GenuineDuplicateFailure ==
    [][\A s \in Subs :
          (NotCommittedStep(s) /\ Matching(s) = {})
          => /\ subs'[s].outcome = "failed"
             /\ subs'[s].err = DuplicateErr
             /\ subs'[s].result = NoBooking
             /\ remote' = remote]_vars

\* The search met a record on the slot and rejected it for its origin or age.
C5_Witness ==
    \E s \in Subs :
       /\ subs[s].pc = "done"
       /\ subs[s].via = "secure"
       /\ ~subs[s].committed
       /\ subs[s].outcome = "failed"
       /\ subs[s].err = DuplicateErr
       /\ \E b \in subs[s].snapshot.list :
             /\ HoldsSlotOf(b, subs[s].cand)
             /\ (~b.serverGenerated \/ now - b.createdAt >= GRACE_WINDOW)

\* A step in which getBookings call c begins (runs up to its await or its return).
StartStep(c) ==
    /\ calls[c].pc \in {"idle", "returned"}
    /\ calls'[c].pc \in {"awaiting", "returned"}
    /\ calls'[c] # calls[c]

\* A step in which the catch block of getBookings call c runs.
CatchStep(c) ==
    /\ calls[c].pc = "served"
    /\ calls[c].err # NoErr
    /\ calls'[c].pc # "served"

\* A step in which gateway write w returns its booking to the caller.
WriteSucceeds(w) ==
    /\ writes[w].pc \in {"served", "servedRoot"}
    /\ writes'[w].pc = "returned"
    /\ writes'[w].outcome = "ok"

\* C6: a getBookings call that begins after an updateBooking has succeeded and whose
\* remote read does not fail never returns a list that was read before that update
\* was applied (the pre-update list): the invalidation forces the re-fetch.
C6_NoPreUpdateList ==
    \A c \in Calls :
       (calls[c].pc = "returned" /\ calls[c].path \notin {"fallbackCache", "fallbackLocal"})
          => calls[c].asOf >= calls[c].minVer

\* C7: every successful gateway write (createBooking, updateBooking, saveBookings)
\* leaves the in-memory bookings cache absent.
C7_WriteInvalidatesCache ==
    [][\A w \in Writes : WriteSucceeds(w) => bookingsCache' = Null]_vars

\* C8: a getBookings failure with the permission-denial message latches the
\* read-denied flag; the flag is never cleared; every call that begins while it is
\* set issues no remote read and returns the persisted localStorage copy.
C8_ReadDeniedLatch ==
    [][/\ \A c \in Calls :
            (CatchStep(c) /\ calls[c].err = PermErr) => bookingsPermissionDenied'
       /\ bookingsPermissionDenied => bookingsPermissionDenied'
       /\ \A c \in Calls :
            (StartStep(c) /\ bookingsPermissionDenied) =>
                /\ calls'[c].pc = "returned"
                /\ calls'[c].result =
                      (IF localBookings.null THEN {} ELSE localBookings.list)]_vars

\* C8 witness: the latch is set and a later call has returned the persisted copy.
C8_Witness ==
    /\ bookingsPermissionDenied
    /\ \E c \in Calls :
          /\ calls[c].pc = "returned"
          /\ calls[c].path = "latched"
          /\ calls[c].result # {}
          /\ ~localBookings.null
          /\ calls[c].result = localBookings.list

\* C9 as stated: once a getBookings call has failed with an error that is not a
\* permission denial, the next getBookings call issues the remote read.
C9_NextCallReadsRemote ==
    [][\A c \in Calls :
          (StartStep(c) /\ lastReadError = NetErr) =>
              calls'[c].pc = "awaiting"]_vars

\* C9 amended: a failure whose message is not the permission denial leaves the
\* read-denied latch as it was, and a call that begins with the latch unset, the
\* database present and no fresh non-empty cache issues the remote read.
C9_TransientNotLatched ==
    [][/\ \A c \in Calls :
            (CatchStep(c) /\ calls[c].err = NetErr) =>
                bookingsPermissionDenied' = bookingsPermissionDenied
       /\ \A c \in Calls :
            (/\ StartStep(c)
             /\ ~bookingsPermissionDenied
             /\ dbAvailable
             /\ ~(/\ ~bookingsCache.null
                  /\ bookingsCache.list # {}
                  /\ now - bookingsCacheTime < 30000)) =>
                calls'[c].pc = "awaiting"]_vars

\* C9 witness: the last call failed on the network, the latch is unset and the
\* next call is waiting for its remote read.
C9_Witness ==
    /\ lastReadError = NetErr
    /\ ~bookingsPermissionDenied
    /\ \E c \in Calls : calls[c].pc = "awaiting"

\* C10: when the remote read fails, getBookings returns the memory cache if it is
\* non-empty, whatever its age, else the persisted copy, else the empty list, and
\* it returns: the call does not end in an error.
C10_FailureFallback ==
    [][\A c \in Calls :
          CatchStep(c) =>
              /\ calls'[c].pc = "returned"
              /\ calls'[c].result =
                    (IF ~bookingsCache.null /\ bookingsCache.list # {}
                     THEN bookingsCache.list
                     ELSE IF ~localBookings.null THEN localBookings.list
                     ELSE {})]_vars

\* C10 witness: a failed read has returned a non-empty cache older than the TTL.
C10_Witness ==
    \E c \in Calls :
       /\ calls[c].pc = "returned"
       /\ calls[c].path = "fallbackCache"
       /\ calls[c].result # {}
       /\ lastReadError # NoErr
       /\ now - bookingsCacheTime >= 30000

\* A step in which a createBooking call of slot w returns or raises.
CreateReturns(w) ==
    /\ writes'[w].kind = "create"
    /\ writes'[w].pc = "returned"
    /\ writes'[w] # writes[w]

\* C12: every createBooking call dispatches exactly one 'booking:created' event,
\* on success and on failure; on success it returns the booking it was given,
\* on failure it raises the error of the write.
C12_OneCreatedEvent ==
    [][\A w \in Writes :
          /\ writes'[w].kind = "create" => writes'[w].events <= 1
          /\ CreateReturns(w) =>
                /\ writes'[w].events = 1
                /\ writes'[w].outcome \in {"ok", "raised"}
                /\ writes'[w].outcome = "ok" =>
                      (writes'[w].ret = writes'[w].arg /\ writes'[w].err = NoErr)
                /\ writes'[w].outcome = "raised" =>
                      /\ writes'[w].ret = NoBooking
                      /\ writes'[w].err # NoErr
                      /\ writes[w].pc = "served" => writes'[w].err = writes[w].err]_vars

\* C12 witness: a createBooking whose write was rejected has raised, one event sent.
C12_Witness ==
    \E w \in Writes :
       /\ writes[w].kind = "create"
       /\ writes[w].pc = "returned"
       /\ writes[w].outcome = "raised"
       /\ writes[w].err \in RemoteErrors
       /\ writes[w].events = 1

\* A step of a saveBookings call of slot w: one of its own or one in which the
\* backing store answers it.
SaveStep(w) == writes'[w].kind = "save" /\ writes'[w] # writes[w]

\* A step in which a saveBookings call of slot w returns or raises.
SaveReturns(w) == SaveStep(w) /\ writes'[w].pc = "returned"

C14_NoLocalFallback ==
    [][\A w \in Writes : SaveStep(w) => localBookings' = localBookings]_vars

\* C14 witness: a saveBookings whose child writes and bulk write failed has
\* raised, and the persisted copy is still the list read before, not its list.
C14_Witness ==
    \E w \in Writes :
       /\ writes[w].kind = "save"
       /\ writes[w].pc = "returned"
       /\ writes[w].outcome = "raised"
       /\ writes[w].childErr # NoErr
       /\ ~localBookings.null
       /\ localBookings # JSONstringify(writes[w].list)

\* C15: saveBookings never replaces the whole collection: a step in which the
\* backing store applies writes of saveBookings(list) keeps every remote booking
\* whose id is not in list, unchanged.
C15_OthersKept ==
    [][\A w \in Writes :
          (SaveStep(w) /\ remote' # remote)
          => \A r \in remote :
                (\A b \in writes[w].list : b.id # r.id) => r \in remote']_vars

\* A step in which the callback given to setupBookingsListener is invoked.
CallbackInvoked == listener'.seen # listener.seen /\ listener'.seen # -1

\* C16: the callback of a bookings subscription is invoked with the list
\* computed from the current remote collection, after the shared cache has been
\* set to that same list; it is invoked only while the subscription is on: once
\* unsubscribed, the callback is not invoked again.
C16_CacheThenCallback ==
    [][/\ CallbackInvoked =>
             /\ listener.on
             /\ listener'.cbArg = remote
             /\ listener'.cbSaw = Some(listener'.cbArg)
             /\ bookingsCache' = Some(listener'.cbArg)
             /\ bookingsCacheTime' = now
       /\ (~listener.on /\ ~listener'.on) => listener' = listener]_vars

\* C16 witness: the subscription delivered a list and was removed; the remote
\* collection has changed since and the callback has not seen the change.
C16_Witness ==
    /\ ~listener.on
    /\ listener.seen # -1
    /\ listener.seen # rver
    /\ listener.cbArg # remote
    /\ listener.cbSaw = Some(listener.cbArg)

\* Steps of the storage manager, told by the call they record.
ImmediateStep == smResult'.op = "writeImmediate" /\ dateNow' = dateNow
FlushStep == smResult'.op = "flushWrites" /\ dateNow' = dateNow
QueueStep == smResult'.op = "queueWrite" /\ nextTimer' # nextTimer
SweepStep == smResult'.op = "cleanupStaleData" /\ dateNow' = dateNow

\* C17: writeImmediate(key, value) makes one setItem call when it succeeds; when
\* that call fails for quota it evicts the low-priority keys (security logs,
\* action locks, submission status, history), calls setItem exactly once more,
\* and returns true when either call succeeded and false when the second failed
\* too; it always returns a boolean.
C17_EvictThenRetryOnce ==
    [][ImmediateStep =>
          LET r == smResult'
              n == Len(r.attempts)
          IN  /\ r.ret \in BOOLEAN
              /\ n <= 2
              /\ \A i \in 1..n : r.attempts[i].key = r.key /\ r.attempts[i].value = r.value
              /\ CanSerialize(r.value) =>
                     /\ n >= 1
                     /\ r.attempts[1].ok = SetItemOk(localStorage, r.key, Serialize(r.value))
              /\ (n >= 1 /\ r.attempts[1].ok) =>
                     /\ n = 1
                     /\ r.cleanups = 0
                     /\ r.ret
                     /\ localStorage' = [localStorage EXCEPT ![r.key] = Serialize(r.value)]
              /\ (n >= 1 /\ ~r.attempts[1].ok) =>
                     /\ r.cleanups = 1
                     /\ n = 2
                     /\ r.ret = r.attempts[2].ok
                     /\ \A k \in CLEANUP_KEYS \ {r.key} : localStorage'[k] = AbsentItem
                     /\ r.ret => localStorage'[r.key] = Serialize(r.value)
                     /\ (~r.ret /\ r.key \in CLEANUP_KEYS) =>
                            localStorage'[r.key] = AbsentItem]_vars

\* C17 witness: a write that failed for quota went through at the second call,
\* after the eviction.
C17_Witness ==
    /\ smResult.op = "writeImmediate"
    /\ Len(smResult.attempts) = 2
    /\ ~smResult.attempts[1].ok
    /\ smResult.attempts[2].ok
    /\ smResult.ret
    /\ localStorage["bookingSecurityLogs"] = AbsentItem
    /\ localStorage[smResult.key] = Serialize(smResult.value)

\* C18: a flush goes through every queued key: whatever happened to the writes
\* of the keys before it, setItem is called for each key whose value can be
\* serialised.
C18_FailureDoesNotStopFlush ==
    [][FlushStep =>
          \A i \in 1..Len(writeQueue) :
              CanSerialize(writeQueue[i].value) =>
                  \E j \in 1..Len(smResult'.attempts) :
                      /\ smResult'.attempts[j].key = writeQueue[i].key
                      /\ smResult'.attempts[j].value = writeQueue[i].value]_vars

\* C18 witness: the first queued key could not be written and the second was.
C18_Witness ==
    /\ smResult.op = "flushWrites"
    /\ Len(smResult.flushed) = 2
    /\ \A j \in 1..Len(smResult.attempts) :
           smResult.attempts[j].key = smResult.flushed[1].key => ~smResult.attempts[j].ok
    /\ \E j \in 1..Len(smResult.attempts) :
           /\ smResult.attempts[j].key = smResult.flushed[2].key
           /\ smResult.attempts[j].ok
    /\ localStorage[smResult.flushed[2].key] = Serialize(smResult.flushed[2].value)

\* C19: at most one flush timer is pending, and it is the one of the last
\* queueWrite, due 500 ms after it; the queue holds one entry per key, with the
\* last value queued; a flush runs only when that timer is due, finds a
\* non-empty queue, calls setItem only with the queued value of each key, and
\* leaves the queue empty and no timer pending.
C19_Pending ==
    /\ Cardinality(timers) <= 1
    /\ \A t \in timers : t.id = writeTimeout
    /\ (writeQueue # <<>>) <=> (timers # {})
    /\ \A i, j \in 1..Len(writeQueue) : writeQueue[i].key = writeQueue[j].key => i = j
    /\ smResult.op # "flushNothing"
C19_Coalesced ==
    /\ []C19_Pending
    /\ [][/\ QueueStep =>
               /\ timers' = {[id |-> writeTimeout', due |-> dateNow + BatchDelay]}
               /\ \E i \in 1..Len(writeQueue') :
                      writeQueue'[i] = QueueEntry(smResult'.key, smResult'.value)
               /\ \A i \in 1..Len(writeQueue) :
                      writeQueue[i].key # smResult'.key => writeQueue'[i] = writeQueue[i]
               /\ localStorage' = localStorage
          /\ FlushStep =>
               /\ \E t \in timers : t.due <= dateNow
               /\ smResult'.flushed = writeQueue
               /\ \A j \in 1..Len(smResult'.attempts) :
                      \E i \in 1..Len(writeQueue) :
                          /\ writeQueue[i].key = smResult'.attempts[j].key
                          /\ writeQueue[i].value = smResult'.attempts[j].value
               /\ writeQueue' = <<>>
               /\ timers' = {}
               /\ writeTimeout' = 0]_vars

\* C19 witness: two queueWrite calls for one key were flushed together, and the
\* store holds the second value.
C19_Witness ==
    /\ smResult.op = "flushWrites"
    /\ nextTimer = 3
    /\ Len(smResult.flushed) = 1
    /\ dateNow < Epoch + 2 * BatchDelay
    /\ Len(smResult.attempts) = 1
    /\ smResult.attempts[1].ok
    /\ localStorage[smResult.flushed[1].key] = Serialize(smResult.flushed[1].value)

\* A persisted booking that is older than 90 days, by createdAt, else by date.
OlderThan90Days(b) == LessThan(BookingDate(b), dateNow - 90 * DAY)

\* The sweep of the three other categories.
OthersSwept ==
    /\ localStorage["bookingHistory"].kind = "array" =>
           localStorage'["bookingHistory"].items =
               {e \in localStorage["bookingHistory"].items : e.createdAt > dateNow - 30 * DAY}
    /\ localStorage["bookingSecurityLogs"].kind = "array" =>
           localStorage'["bookingSecurityLogs"].items =
               {e \in localStorage["bookingSecurityLogs"].items :
                    e.createdAt > dateNow - 7 * DAY}
    /\ localStorage["actionLocks"].kind = "array" =>
           localStorage'["actionLocks"].items =
               {e \in localStorage["actionLocks"].items : e.createdAt >= dateNow - DAY}

C20_IsolationReached ==
    /\ smResult.op = "cleanupStaleData"
    /\ smResult.sweep.bookingsError
    /\ smResult.sweep.history > 0
    /\ smResult.sweep.logs > 0
    /\ smResult.sweep.locks > 0

\* A getUsers or getGroomers call begins.
UsersReadStart == usersCall.pc \in {"idle", "returned"} /\ usersCall' # usersCall
GroomersReadStart ==
    groomersCall.pc \in {"idle", "returned"} /\ groomersCall' # groomersCall

\* What the claim of C11 asks of a read that begins at time t, `last` being the
\* successful remote read before it and `call` the read as it stands after its
\* first step: before the TTL it has returned the same list without a remote
\* read, after the TTL it has started a remote read.
ServedWithinTtl(last, call, ttl, t) ==
    (last.ok /\ last.list # {}) =>
        IF t - last.at < ttl
        THEN call.pc = "returned" /\ call.reads = 0 /\ call.result = last.list
        ELSE call.reads >= 1

\* C11 (users, 60 s): after a successful remote read of a non-empty list of
\* users, a second getUsers before the TTL does no remote read and returns the
\* same list, and a getUsers after the TTL starts a remote read.
C11_UsersServedWithinTtl ==
    [][UsersReadStart =>
          ServedWithinTtl(lastUsersRead, usersCall', 60000, now)]_vars

\* C11 (groomers, 60 s): the same for getGroomers.
C11_GroomersServedWithinTtl ==
    [][GroomersReadStart =>
          ServedWithinTtl(lastGroomersRead, groomersCall', 60000, now)]_vars

\* A second getGroomers before the TTL was served from the cache, the remote
\* list having changed since.
C11_GroomersHitReached ==
    /\ groomersCall.pc = "returned"
    /\ groomersCall.hit
    /\ lastGroomersRead.ok
    /\ groomersCall.result = lastGroomersRead.list
    /\ groomersCall.result # remoteGroomers

\* C28: after a flush, every queued key for which a setItem call succeeded
\* holds the value that was queued for it.
C28_FlushedKeysKeepValue ==
    [][FlushStep =>
          \A i \in 1..Len(writeQueue) :
              (\E j \in 1..Len(smResult'.attempts) :
                   /\ smResult'.attempts[j].key = writeQueue[i].key
                   /\ smResult'.attempts[j].ok)
              => localStorage'[writeQueue[i].key] = Serialize(writeQueue[i].value)]_vars

\* The state a blocked submission has to end in: the lock token completed as
\* failed, the loading overlay hidden, the submitting flag reset, the wizard at
\* the scheduling step.
RetryPossible(s) ==
    /\ subs[s].pc = "done"
    /\ subs[s].outcome = "blocked"
    /\ subs[s].token = "failed"
    /\ ~subs[s].loading
    /\ ~subs[s].isSubmittingBooking
    /\ subs[s].step = 4

LastEntries(list, n) ==
    IF Len(list) > n THEN SubSeq(list, Len(list) - n + 1, Len(list)) ELSE list

GlobalTimeoutStep ==
    /\ loadingTimeouts.armed
    /\ loadingTimeouts.due <= loaderClock
    /\ ~loadingTimeouts'.armed
    /\ loaderOps' = loaderOps

Overdue ==
    /\ globalLoader.visible
    /\ globalLoader.timeout > 0
    /\ loaderClock >= globalLoader.shownAt + globalLoader.timeout

\* C22: a global loader shown with a positive timeout does not stay visible
\* past the timeout (no time passes while an overdue loader is visible), and
\* the step of the timeout hides the loader and surfaces an error.
C22_TimeoutHidesAndReports ==
    [][/\ loaderClock' # loaderClock => ~Overdue
       /\ GlobalTimeoutStep => ~globalLoader'.visible /\ errorShown']_vars

\* The loader a pending global call showed has not run into its timeout.
PendingWithinTimeout(c) ==
    /\ loaderOps[c].pc = "pending"
    /\ loaderOps[c].global
    /\ \/ loaderOps[c].timeout = 0
       \/ loaderClock < loaderOps[c].startedAt + loaderOps[c].timeout

AllSettled ==
    /\ \E c \in LoaderCalls : loaderOps[c].pc # "idle"
    /\ \A c \in LoaderCalls : loaderOps[c].pc # "pending"

\* C27: while a withLoader call started with global: true is pending (and
\* its timeout has not elapsed) the global loader is visible, whatever other
\* calls have done; once every call has settled no loader and no timer is left.
C27_LoaderWhilePending ==
    /\ (\E c \in LoaderCalls : PendingWithinTimeout(c)) => globalLoader.visible
    /\ AllSettled => ~globalLoader.visible /\ ~loadingTimeouts.armed

\* ---- C23, C29, C30: the customer dashboard

\* C23: a list the user filter produced (getUserBookings, the bookings
\* subscription) holds no booking that carries the userId of someone else.
C23_NoForeignUserId ==
    \A b \in lastFiltered.list : b.userId # "" => b.userId = lastFiltered.user.id

\* C29: customerBookingsCache holds only bookings of the user who is logged
\* in, also when another user loaded the dashboard in this browser before.
C29_CacheOfCurrentUser ==
    \A b \in customerBookingsCache : MatchesUser(currentUser, b)

\* C30: once loadQuickStats has completed without error, #quickStats shows
\* the statistics of the bookings the call worked on.
C30_StatsDisplayed ==
    statsLoad.pc = "done" /\ ~statsLoad.failed
        => quickStats.html = StatsMarkup(statsLoad.bookings)

\* ---- C25, C26: proof of payment

InProgress(c) == removals[c].pc \in {"fetching", "saving"}

\* C25: of the removeProofOfPayment invocations whose dialogs are pending
\* together at most one is between setting isRemovingProof and its finally
\* block, and the flag is false once every invocation has returned.
C25_OneRemovalAtATime ==
    /\ \A c, d \in Removals : InProgress(c) /\ InProgress(d) => c = d
    /\ (\A c \in Removals : removals[c].pc = "returned") => ~isRemovingProof

\* C26: whenever ButtonProtection.isProcessing is true it becomes false
\* again, whichever way the call that set it went.
C26_ProcessingReset == isProcessing ~> ~isProcessing

====
